---- MODULE Spec2Model ----
\* Verification model of the password-kit evaluation pipeline:
\*   src/src/analyzer/expiry.ts    (rotation policy engine, calculateExpiry,
\*                                  estimateCrackCost, calculateExpiryBatch)
\*   src/src/analyzer/strength.ts  (NIST 800-63B policy validator, validatePassword,
\*                                  validatePasswordsBatch)
\*   src/src/analyzer/quick-check.ts, src/src/generators/password.ts,
\*   src/unnamed/part_003          (the strength classifications)
\*
\* Conventions
\*   - A JavaScript string is a sequence of UTF-16 code units (naturals); the
\*     comment next to a literal gives its text.
\*   - A Date is a whole number of hours since an epoch; one day is HoursPerDay.
\*   - A real number that the code keeps as a double is kept exactly: periods are
\*     rationals <<numerator, denominator>>, entropy is in micro-bits.
\*   - A cost in USD is kept as its binary logarithm, in micro-bits: the order of
\*     two costs is the order of their logarithms.
\*   - An optional value is <<>> when absent and <<v>> when present; an absent
\*     string-valued option is the string Undefined.
EXTENDS Integers, Sequences, FiniteSets, TLC

VARIABLES pc, password, createdAt, now, dstShift, options, estimate, config, context, result,
          score, strengths, crackEntropy, crackAlgorithm, crackCost,
          items, sharedOptions, passwords, contexts, results, cursor,
          generatorOptions, generatedChars, attempts, generated,
          randomMax, randomSource, randomIndex,
          hashOptions, salt, encoded, engine, outcome,
          defaultPolicy, held

\* the arguments and the returned value of calculateExpiry, of validatePassword, and
\* of the four strength classifications
expiryVars == <<createdAt, now, dstShift, options, estimate>>

policyVars == <<config, context, result>>

strengthVars == <<score, strengths>>

\* the arguments and the returned value of estimateCrackCost
crackVars == <<crackEntropy, crackAlgorithm, crackCost>>

\* the arguments of calculateExpiryBatch (items, sharedOptions) and of
\* validatePasswordsBatch (passwords, config, contexts), their results array and
\* the number of items the loop has taken
batchVars == <<items, sharedOptions, passwords, contexts, results, cursor>>

\* the argument of generatePassword, the password of the running attempt, the
\* number of finished attempts and the returned value
generatorVars == <<generatorOptions, generatedChars, attempts, generated>>

\* the argument of getRandomInt or getRandomIndex, the random value the call used
\* and the index it returned
randomVars == <<randomMax, randomSource, randomIndex>>

\* the options of hashPassword, the salt it drew, the encoded hash handed to
\* verifyPassword, what the Argon2 engine did and what the function did
argon2Vars == <<hashOptions, salt, encoded, engine, outcome>>

\* the module-level DEFAULT_POLICY object of strength.ts with the present contents
\* of its arrays, and the object a caller holds after getDefaultPolicy,
\* createPolicy, getDefaultArgon2Options or getDefaultOptions
defaultsVars == <<defaultPolicy, held>>

vars == <<pc, password, expiryVars, policyVars, strengthVars, crackVars, batchVars,
          generatorVars, randomVars, argon2Vars, defaultsVars>>

\* ---------------------------------------------------------------------------
\* Bounds of the model
\* ---------------------------------------------------------------------------

\* longest password handed to calculateExpiry
MaxPasswordLen == 20

\* latest value of the clock, in days after the epoch
MaxNowDay == 800

\* longest generated password handed to validatePassword
MaxPolicyLen == 3

\* most custom rules in a policy configuration
MaxRules == 2

\* longest array a caller makes by pushing into a field of a returned object
MaxArrayLen == 2

\* longest password asked of generatePassword
MaxGeneratedLen == 8

\* largest score or entropy handed to the strength classifications
MaxStrengthInput == 120

\* largest entropy, in bits, handed to estimateCrackCost on its own
MaxEntropyBits == 110

\* longest array handed to a batch function
MaxBatch == 2

\* ---------------------------------------------------------------------------
\* JavaScript primitives
\* ---------------------------------------------------------------------------

Undefined == "undefined"

Min(a, b) == IF a <= b THEN a ELSE b

Max(a, b) == IF a >= b THEN a ELSE b

\* String.prototype.includes
Includes(hay, needle) ==
  \E i \in 0..(Len(hay) - Len(needle)) : SubSeq(hay, i + 1, i + Len(needle)) = needle

\* the first k code units of base repeated cyclically
Cycle(base, k) == [i \in 1..k |-> base[((i - 1) % Len(base)) + 1]]

\* Math.round of the rational q[1]/q[2] (q[2] > 0): halves round towards +infinity
MathRound(q) == (2 * q[1] + q[2]) \div (2 * q[2])

\* Math.min of two rationals
RatMin(p, q) == IF p[1] * q[2] <= q[1] * p[2] THEN p ELSE q

\* ---------------------------------------------------------------------------
\* analyzer/expiry.ts
\* ---------------------------------------------------------------------------

HoursPerDay == 24

MicroBits == 1000 * 1000

ENTROPY_ROTATION_PERIODS ==
  [s \in {"very-weak", "weak", "moderate", "strong", "very-strong"} |->
     CASE s = "very-weak" -> 30
       [] s = "weak" -> 90
       [] s = "moderate" -> 180
       [] s = "strong" -> 365
       [] s = "very-strong" -> -1]

RISK_MULTIPLIERS_LowTimesOneAndAHalf ==
  [r \in {"low", "medium", "high"} |->
     CASE r = "low" -> <<3, 2>>
       [] r = "medium" -> <<1, 1>>
       [] r = "high" -> <<1, 2>>]

\* 2.0, 1.0 and 0.5
RISK_MULTIPLIERS ==
  [r \in {"low", "medium", "high"} |->
     CASE r = "low" -> <<2, 1>>
       [] r = "medium" -> <<1, 1>>
       [] r = "high" -> <<1, 2>>]

\* floor(Math.log2(c) * 10^6) for the charset sizes calculatePasswordEntropy can reach.
\* Only c = 32 has a rational logarithm; for the others length * log2(c) is never
\* within length micro-bits of 40, 60, 80 or 100 for length <= 200, so the band of
\* the scaled value is the band of the double.
Log2Micro(c) ==
  CASE c = 10 -> 3321928
    [] c = 26 -> 4700439
    [] c = 32 -> 5000000
    [] c = 36 -> 5169925
    [] c = 42 -> 5392317
    [] c = 52 -> 5700439
    [] c = 58 -> 5857980
    [] c = 62 -> 5954196
    [] c = 68 -> 6087462
    [] c = 84 -> 6392317
    [] c = 94 -> 6554588
    [] c = 1032 -> 10011227
    [] c = 1042 -> 10025139
    [] c = 1058 -> 10047123
    [] c = 1068 -> 10060695
    [] c = 1084 -> 10082149
    [] c = 1094 -> 10095397

\* /[a-z]/.test
HasLowercase(s) == \E i \in DOMAIN s : s[i] \in 97..122

\* /[A-Z]/.test
HasUppercase(s) == \E i \in DOMAIN s : s[i] \in 65..90

\* /[0-9]/.test
HasDigit(s) == \E i \in DOMAIN s : s[i] \in 48..57

\* /[^a-zA-Z0-9]/.test
HasNonAlphanumeric(s) == \E i \in DOMAIN s : s[i] \notin (97..122) \cup (65..90) \cup (48..57)

\* /[^\x00-\x7F]/.test
HasUnicode(s) == \E i \in DOMAIN s : s[i] > 127

charsetSizeOf(s) ==
  (IF HasLowercase(s) THEN 26 ELSE 0)
  + (IF HasUppercase(s) THEN 26 ELSE 0)
  + (IF HasDigit(s) THEN 10 ELSE 0)
  + (IF HasNonAlphanumeric(s) THEN 32 ELSE 0)
  + (IF HasUnicode(s) THEN 1000 ELSE 0)

\* entropy in micro-bits
calculatePasswordEntropy(s) ==
  LET charsetSize == charsetSizeOf(s)
  IN  IF charsetSize = 0 \/ Len(s) = 0 THEN 0 ELSE Log2Micro(charsetSize) * Len(s)

classifyEntropy(entropy) ==
  IF entropy < 40 * MicroBits THEN "very-weak"
  ELSE IF entropy < 60 * MicroBits THEN "weak"
  ELSE IF entropy < 80 * MicroBits THEN "moderate"
  ELSE IF entropy < 100 * MicroBits THEN "strong"
  ELSE "very-strong"

HashAlgorithms == {"argon2id", "scrypt", "bcrypt", "pbkdf2", "sha256", "sha1", "md5"}

HASH_STRENGTH_MULTIPLIERS_Sha1AboveSha256 ==
  [a \in HashAlgorithms |->
     CASE a = "argon2id" -> <<1000, 1>>
       [] a = "scrypt" -> <<500, 1>>
       [] a = "bcrypt" -> <<100, 1>>
       [] a = "pbkdf2" -> <<10, 1>>
       [] a = "sha256" -> <<1, 1>>
       [] a = "sha1" -> <<2, 1>>
       [] a = "md5" -> <<1, 10>>]

\* 1000, 500, 100, 10, 1, 0.5 and 0.1
HASH_STRENGTH_MULTIPLIERS ==
  [a \in HashAlgorithms |->
     CASE a = "argon2id" -> <<1000, 1>>
       [] a = "scrypt" -> <<500, 1>>
       [] a = "bcrypt" -> <<100, 1>>
       [] a = "pbkdf2" -> <<10, 1>>
       [] a = "sha256" -> <<1, 1>>
       [] a = "sha1" -> <<1, 2>>
       [] a = "md5" -> <<1, 10>>]

\* floor(Math.log2(n) * 10^6) for the numbers estimateCrackCost multiplies and
\* divides by. With these, a cost is at the cap in the model exactly when it is in
\* exact arithmetic, for every entropy that is a multiple of half a bit and for
\* every entropy of a password of up to 40 characters.
Log2MicroCost(n) ==
  CASE n = 1 -> 0
    [] n = 2 -> 1000000
    [] n = 10 -> 3321928
    [] n = 100 -> 6643856
    [] n = 500 -> 8965784
    [] n = 1000 -> 9965784
    [] n = 3600 -> 11813781

estimateCrackCost_NoCap(entropy, hashAlgorithm) ==
  LET hashMultiplier == Log2MicroCost(HASH_STRENGTH_MULTIPLIERS[hashAlgorithm][1])
                        - Log2MicroCost(HASH_STRENGTH_MULTIPLIERS[hashAlgorithm][2])
  IN  ((entropy - Log2MicroCost(2)) - (10 * Log2MicroCost(10) - hashMultiplier))
      - Log2MicroCost(3600)

\* the logarithm of the cost: a product is a sum, a quotient a difference;
\* baseHashesPerSecond is 1e10, costPerHour 1.0 and the cap 1e15
estimateCrackCost(entropy, hashAlgorithm) ==
  LET searchSpace == entropy
      hashMultiplier == Log2MicroCost(HASH_STRENGTH_MULTIPLIERS[hashAlgorithm][1])
                        - Log2MicroCost(HASH_STRENGTH_MULTIPLIERS[hashAlgorithm][2])
      effectiveHashRate == 10 * Log2MicroCost(10) - hashMultiplier
      secondsToCrack == (searchSpace - Log2MicroCost(2)) - effectiveHashRate
      hoursToCrack == secondsToCrack - Log2MicroCost(3600)
      cost == hoursToCrack + Log2MicroCost(1)
  IN  Min(cost, 15 * Log2MicroCost(10))

getBaseRotationPeriod_SentinelLeaks(entropy) ==
  ENTROPY_ROTATION_PERIODS[classifyEntropy(entropy)]

getBaseRotationPeriod(entropy) ==
  LET strength == classifyEntropy(entropy)
      basePeriod == IF ENTROPY_ROTATION_PERIODS[strength] = 0
                    THEN 365 ELSE ENTROPY_ROTATION_PERIODS[strength]
  IN  IF basePeriod = -1 THEN 730 ELSE basePeriod

applyModifiers_CapBeforeMultiplying(basePeriod, opts) ==
  LET capped == IF opts.isPrivileged THEN Min(basePeriod, 90) ELSE basePeriod
      riskMultiplier == RISK_MULTIPLIERS[IF opts.riskProfile = Undefined THEN "medium" ELSE opts.riskProfile]
      p1 == <<capped * riskMultiplier[1], riskMultiplier[2]>>
      p2 == IF opts.hasMFA THEN <<p1[1] * 2, p1[2]>> ELSE p1
  IN  MathRound(p2)

applyModifiers_MfaIgnored(basePeriod, opts) ==
  LET riskMultiplier == RISK_MULTIPLIERS[IF opts.riskProfile = Undefined THEN "medium" ELSE opts.riskProfile]
      p1 == <<basePeriod * riskMultiplier[1], riskMultiplier[2]>>
      p3 == IF opts.isPrivileged THEN RatMin(p1, <<90, 1>>) ELSE p1
  IN  MathRound(p3)

applyModifiers(basePeriod, opts) ==
  LET riskMultiplier == RISK_MULTIPLIERS[IF opts.riskProfile = Undefined THEN "medium" ELSE opts.riskProfile]
      p1 == <<basePeriod * riskMultiplier[1], riskMultiplier[2]>>
      p2 == IF opts.hasMFA THEN <<p1[1] * 2, p1[2]>> ELSE p1
      p3 == IF opts.isPrivileged THEN RatMin(p2, <<90, 1>>) ELSE p2
  IN  MathRound(p3)

\* the options with their defaults filled in
defaultedOptions(o) ==
  [riskProfile |-> IF o.riskProfile = Undefined THEN "medium" ELSE o.riskProfile,
   hasMFA |-> o.hasMFA,
   isPrivileged |-> o.isPrivileged,
   hashAlgorithm |-> IF o.hashAlgorithm = Undefined THEN "argon2id" ELSE o.hashAlgorithm,
   daysSinceBreachFound |-> IF o.daysSinceBreachFound = <<>> THEN -1 ELSE o.daysSinceBreachFound[1],
   isBreached |-> o.isBreached,
   hasSimilarBreaches |-> o.hasSimilarBreaches]

\* "Password found in breach database - immediate rotation required"
REASON_BREACHED == <<80, 97, 115, 115, 119, 111, 114, 100, 32, 102, 111, 117, 110, 100, 32, 105, 110, 32, 98, 114, 101, 97, 99, 104, 32, 100, 97, 116, 97, 98, 97, 115, 101, 32, 45, 32, 105, 109, 109, 101, 100, 105, 97, 116, 101, 32, 114, 111, 116, 97, 116, 105, 111, 110, 32, 114, 101, 113, 117, 105, 114, 101, 100>>

\* "Similar passwords breached recently - accelerated 30-day rotation"
REASON_SIMILAR == <<83, 105, 109, 105, 108, 97, 114, 32, 112, 97, 115, 115, 119, 111, 114, 100, 115, 32, 98, 114, 101, 97, 99, 104, 101, 100, 32, 114, 101, 99, 101, 110, 116, 108, 121, 32, 45, 32, 97, 99, 99, 101, 108, 101, 114, 97, 116, 101, 100, 32, 51, 48, 45, 100, 97, 121, 32, 114, 111, 116, 97, 116, 105, 111, 110>>

\* "Very strong password - extended rotation period"
REASON_VERY_STRONG == <<86, 101, 114, 121, 32, 115, 116, 114, 111, 110, 103, 32, 112, 97, 115, 115, 119, 111, 114, 100, 32, 45, 32, 101, 120, 116, 101, 110, 100, 101, 100, 32, 114, 111, 116, 97, 116, 105, 111, 110, 32, 112, 101, 114, 105, 111, 100>>

\* "Strong password - standard rotation period"
REASON_STRONG == <<83, 116, 114, 111, 110, 103, 32, 112, 97, 115, 115, 119, 111, 114, 100, 32, 45, 32, 115, 116, 97, 110, 100, 97, 114, 100, 32, 114, 111, 116, 97, 116, 105, 111, 110, 32, 112, 101, 114, 105, 111, 100>>

\* "Moderate password - regular rotation recommended"
REASON_MODERATE == <<77, 111, 100, 101, 114, 97, 116, 101, 32, 112, 97, 115, 115, 119, 111, 114, 100, 32, 45, 32, 114, 101, 103, 117, 108, 97, 114, 32, 114, 111, 116, 97, 116, 105, 111, 110, 32, 114, 101, 99, 111, 109, 109, 101, 110, 100, 101, 100>>

\* "Weak password - frequent rotation required"
REASON_WEAK == <<87, 101, 97, 107, 32, 112, 97, 115, 115, 119, 111, 114, 100, 32, 45, 32, 102, 114, 101, 113, 117, 101, 110, 116, 32, 114, 111, 116, 97, 116, 105, 111, 110, 32, 114, 101, 113, 117, 105, 114, 101, 100>>

\* " (MFA protection extends period)"
CLAUSE_MFA == <<32, 40, 77, 70, 65, 32, 112, 114, 111, 116, 101, 99, 116, 105, 111, 110, 32, 101, 120, 116, 101, 110, 100, 115, 32, 112, 101, 114, 105, 111, 100, 41>>

\* " (privileged access - 90-day maximum enforced)"
CLAUSE_PRIVILEGED == <<32, 40, 112, 114, 105, 118, 105, 108, 101, 103, 101, 100, 32, 97, 99, 99, 101, 115, 115, 32, 45, 32, 57, 48, 45, 100, 97, 121, 32, 109, 97, 120, 105, 109, 117, 109, 32, 101, 110, 102, 111, 114, 99, 101, 100, 41>>

\* " (high-risk account - reduced period)"
CLAUSE_HIGH_RISK == <<32, 40, 104, 105, 103, 104, 45, 114, 105, 115, 107, 32, 97, 99, 99, 111, 117, 110, 116, 32, 45, 32, 114, 101, 100, 117, 99, 101, 100, 32, 112, 101, 114, 105, 111, 100, 41>>

\* the reason string of the entropy path
buildReason(entropy, opts) ==
  (IF entropy >= 100 * MicroBits THEN REASON_VERY_STRONG
   ELSE IF entropy >= 80 * MicroBits THEN REASON_STRONG
   ELSE IF entropy >= 60 * MicroBits THEN REASON_MODERATE
   ELSE REASON_WEAK)
  \o (IF opts.hasMFA THEN CLAUSE_MFA ELSE <<>>)
  \o (IF opts.isPrivileged THEN CLAUSE_PRIVILEGED ELSE <<>>)
  \o (IF opts.riskProfile = "high" THEN CLAUSE_HIGH_RISK ELSE <<>>)

\* new Date(date) followed by setDate(getDate() + days): the same local wall-clock
\* time `days` calendar days later; shift is the change of the local UTC offset
\* between the two dates (0 in a zone without daylight saving)
addDays(date, days, shift) == date + days * HoursPerDay + (IF days = 0 THEN 0 ELSE shift)

\* Math.max(0, Math.floor((expiryDate - now) / one day))
daysUntil(expiryDate, clock) == Max(0, (expiryDate - clock) \div HoursPerDay)

branchOf_SimilarBeforeBreached(opts) ==
  IF opts.hasSimilarBreaches /\ opts.daysSinceBreachFound >= 0 /\ opts.daysSinceBreachFound < 90
  THEN "similar"
  ELSE IF opts.isBreached THEN "breached"
  ELSE "entropy"

branchOf_WindowIncludesDay90(opts) ==
  IF opts.isBreached THEN "breached"
  ELSE IF opts.hasSimilarBreaches /\ opts.daysSinceBreachFound >= 0 /\ opts.daysSinceBreachFound <= 90
  THEN "similar"
  ELSE "entropy"

\* which of the three return statements of calculateExpiry is reached
branchOf(opts) ==
  IF opts.isBreached THEN "breached"
  ELSE IF opts.hasSimilarBreaches /\ opts.daysSinceBreachFound >= 0 /\ opts.daysSinceBreachFound < 90
  THEN "similar"
  ELSE "entropy"

calculateExpiry_NextCheckUnclamped(pw, created, o, clock, shift) ==
  LET opts == defaultedOptions(o)
      entropy == calculatePasswordEntropy(pw)
      estimatedCrackCost == estimateCrackCost(entropy, opts.hashAlgorithm)
      branch == branchOf(opts)
  IN  IF branch = "breached"
      THEN [expiryDate |-> created,
            daysRemaining |-> 0,
            recommendRotation |-> TRUE,
            reason |-> REASON_BREACHED,
            nextCheckDate |-> clock,
            rotationPeriodDays |-> 0,
            entropy |-> entropy,
            estimatedCrackCost |-> estimatedCrackCost]
      ELSE IF branch = "similar"
      THEN LET expiryDate == addDays(created, 30, shift)
               daysRemaining == daysUntil(expiryDate, clock)
           IN  [expiryDate |-> expiryDate,
                daysRemaining |-> daysRemaining,
                recommendRotation |-> daysRemaining <= 7,
                reason |-> REASON_SIMILAR,
                nextCheckDate |-> clock + 7 * HoursPerDay,
                rotationPeriodDays |-> 30,
                entropy |-> entropy,
                estimatedCrackCost |-> estimatedCrackCost]
      ELSE LET basePeriod == getBaseRotationPeriod(entropy)
               rotationPeriodDays == applyModifiers(basePeriod, opts)
               expiryDate == addDays(created, rotationPeriodDays, shift)
               daysRemaining == daysUntil(expiryDate, clock)
               daysUntilNextCheck == daysRemaining - 30
           IN  [expiryDate |-> expiryDate,
                daysRemaining |-> daysRemaining,
                recommendRotation |-> daysRemaining <= 30,
                reason |-> buildReason(entropy, opts),
                nextCheckDate |-> clock + daysUntilNextCheck * HoursPerDay,
                rotationPeriodDays |-> rotationPeriodDays,
                entropy |-> entropy,
                estimatedCrackCost |-> estimatedCrackCost]

calculateExpiry(pw, created, o, clock, shift) ==
  LET opts == defaultedOptions(o)
      entropy == calculatePasswordEntropy(pw)
      estimatedCrackCost == estimateCrackCost(entropy, opts.hashAlgorithm)
      branch == branchOf(opts)
  IN  IF branch = "breached"
      THEN [expiryDate |-> created,
            daysRemaining |-> 0,
            recommendRotation |-> TRUE,
            reason |-> REASON_BREACHED,
            nextCheckDate |-> clock,
            rotationPeriodDays |-> 0,
            entropy |-> entropy,
            estimatedCrackCost |-> estimatedCrackCost]
      ELSE IF branch = "similar"
      THEN LET expiryDate == addDays(created, 30, shift)
               daysRemaining == daysUntil(expiryDate, clock)
           IN  [expiryDate |-> expiryDate,
                daysRemaining |-> daysRemaining,
                recommendRotation |-> daysRemaining <= 7,
                reason |-> REASON_SIMILAR,
                nextCheckDate |-> clock + 7 * HoursPerDay,
                rotationPeriodDays |-> 30,
                entropy |-> entropy,
                estimatedCrackCost |-> estimatedCrackCost]
      ELSE LET basePeriod == getBaseRotationPeriod(entropy)
               rotationPeriodDays == applyModifiers(basePeriod, opts)
               expiryDate == addDays(created, rotationPeriodDays, shift)
               daysRemaining == daysUntil(expiryDate, clock)
               daysUntilNextCheck == Min(Max(daysRemaining - 30, 30), 90)
           IN  [expiryDate |-> expiryDate,
                daysRemaining |-> daysRemaining,
                recommendRotation |-> daysRemaining <= 30,
                reason |-> buildReason(entropy, opts),
                nextCheckDate |-> clock + daysUntilNextCheck * HoursPerDay,
                rotationPeriodDays |-> rotationPeriodDays,
                entropy |-> entropy,
                estimatedCrackCost |-> estimatedCrackCost]

\* ---------------------------------------------------------------------------
\* analyzer/strength.ts: the NIST 800-63B policy engine
\* ---------------------------------------------------------------------------

RECURSIVE Decimal(_)
\* a non-negative integer inside a template literal
Decimal(n) == IF n < 10 THEN <<48 + n>> ELSE Decimal(n \div 10) \o <<48 + (n % 10)>>

RECURSIVE Flatten(_)
\* the concatenation of a sequence of sequences
Flatten(ss) == IF ss = <<>> THEN <<>> ELSE Head(ss) \o Flatten(Tail(ss))

RECURSIVE Join(_, _)
\* Array.prototype.join
Join(ss, sep) ==
  IF ss = <<>> THEN <<>>
  ELSE IF Len(ss) = 1 THEN ss[1]
  ELSE ss[1] \o sep \o Join(Tail(ss), sep)

Reverse(s) == [i \in 1..Len(s) |-> s[Len(s) + 1 - i]]

\* String.prototype.toLowerCase on the modelled alphabet: A-Z, U+00C9 and the
\* fullwidth capitals have a lower-case form 32 code points further on
toLowerCase(s) ==
  [i \in 1..Len(s) |->
     IF s[i] \in (65..90) \cup {201} \cup (65313..65338) THEN s[i] + 32 ELSE s[i]]

\* Unicode decomposition of one code unit of the modelled alphabet (ASCII, U+00C9,
\* U+00E9, U+0301 after e or E, U+FB01, U+FF21): canonical for U+00C9 and U+00E9,
\* compatibility for the ligature U+FB01 and the fullwidth U+FF21
decompose(c, compat) ==
  IF c = 233 THEN <<101, 769>>
  ELSE IF c = 201 THEN <<69, 769>>
  ELSE IF compat /\ c = 64257 THEN <<102, 105>>
  ELSE IF compat /\ c = 65313 THEN <<65>>
  ELSE <<c>>

RECURSIVE compose(_)
\* canonical composition: e or E followed by U+0301
compose(s) ==
  IF Len(s) < 2 THEN s
  ELSE IF s[1] = 101 /\ s[2] = 769 THEN <<233>> \o compose(SubSeq(s, 3, Len(s)))
  ELSE IF s[1] = 69 /\ s[2] = 769 THEN <<201>> \o compose(SubSeq(s, 3, Len(s)))
  ELSE <<s[1]>> \o compose(Tail(s))

\* String.prototype.normalize
normalize(s, form) ==
  LET compat == form \in {"NFKC", "NFKD"}
      decomposed == Flatten([i \in 1..Len(s) |-> decompose(s[i], compat)])
  IN  IF form \in {"NFC", "NFKC"} THEN compose(decomposed) ELSE decomposed

normalizePassword(pw, form) == normalize(pw, form)

DEFAULT_POLICY ==
  [minLength |-> 15,
   maxLength |-> 128,
   requireUnicode |-> FALSE,
   blocklists |-> <<"common-passwords">>,
   contextWords |-> <<>>,
   allowedChars |-> <<>>,
   normalization |-> "NFKC",
   detectPatterns |-> TRUE,
   customRules |-> <<>>]

\* { ...DEFAULT_POLICY, ...config }: a key of config wins; allowedChars is <<>> for
\* null and <<s>> for the string s
mergePolicy(cfg) ==
  [k \in DOMAIN DEFAULT_POLICY \cup DOMAIN cfg |->
     IF k \in DOMAIN cfg THEN cfg[k] ELSE DEFAULT_POLICY[k]]

COMMON_PASSWORDS ==
  {<<112, 97, 115, 115, 119, 111, 114, 100>>, <<49, 50, 51, 52, 53, 54>>, <<49, 50, 51, 52, 53, 54, 55, 56, 57>>, <<112, 97, 115, 115, 119, 111, 114, 100, 49>>, <<49, 50, 51, 52, 53, 54, 55, 56>>,
   <<113, 119, 101, 114, 116, 121>>, <<97, 98, 99, 49, 50, 51>>, <<49, 49, 49, 49, 49, 49>>, <<109, 111, 110, 107, 101, 121>>, <<49, 50, 51, 52, 53, 54, 55, 56, 57, 48>>,
   <<108, 101, 116, 109, 101, 105, 110>>, <<49, 50, 51, 52, 53, 54, 55>>, <<100, 114, 97, 103, 111, 110>>, <<109, 97, 115, 116, 101, 114>>, <<108, 111, 103, 105, 110>>,
   <<112, 114, 105, 110, 99, 101, 115, 115>>, <<113, 119, 101, 114, 116, 121, 117, 105, 111, 112>>, <<115, 111, 108, 111>>, <<112, 97, 115, 115, 119, 48, 114, 100>>, <<115, 116, 97, 114, 119, 97, 114, 115>>,
   <<112, 97, 115, 115, 119, 111, 114, 100, 49, 50, 51>>, <<49, 50, 51, 49, 50, 51>>, <<119, 101, 108, 99, 111, 109, 101>>, <<97, 100, 109, 105, 110>>, <<105, 108, 111, 118, 101, 121, 111, 117>>,
   <<115, 117, 110, 115, 104, 105, 110, 101>>, <<97, 100, 111, 98, 101, 49, 50, 51>>, <<97, 115, 104, 108, 101, 121>>, <<98, 97, 105, 108, 101, 121>>, <<97, 99, 99, 101, 115, 115>>,
   <<102, 111, 111, 116, 98, 97, 108, 108>>, <<115, 104, 97, 100, 111, 119>>, <<115, 117, 112, 101, 114, 109, 97, 110>>, <<54, 57, 54, 57, 54, 57>>, <<33, 64, 35, 36, 37, 94, 38, 42>>,
   <<99, 104, 97, 114, 108, 105, 101>>, <<97, 97, 49, 50, 51, 52, 53, 54>>, <<100, 111, 110, 97, 108, 100>>, <<102, 114, 101, 101, 100, 111, 109>>, <<119, 104, 97, 116, 101, 118, 101, 114>>,
   <<109, 105, 99, 104, 97, 101, 108>>, <<109, 105, 99, 104, 101, 108, 108, 101>>, <<112, 101, 112, 112, 101, 114>>, <<116, 114, 117, 115, 116, 110, 111, 49>>, <<106, 111, 114, 100, 97, 110, 50, 51>>}

KEYBOARD_PATTERNS ==
  <<<<113, 119, 101, 114, 116, 121>>, <<113, 119, 101, 114, 116, 121, 117, 105, 111, 112>>, <<97, 115, 100, 102>>, <<97, 115, 100, 102, 103, 104, 106, 107, 108>>, <<122, 120, 99, 118>>, <<122, 120, 99, 118, 98, 110, 109>>,
    <<49, 50, 51, 52>>, <<49, 50, 51, 52, 53>>, <<49, 50, 51, 52, 53, 54>>, <<49, 50, 51, 52, 53, 54, 55>>, <<49, 50, 51, 52, 53, 54, 55, 56>>, <<49, 50, 51, 52, 53, 54, 55, 56, 57>>,
    <<97, 98, 99, 100>>, <<97, 98, 99, 100, 101>>, <<97, 98, 99, 100, 101, 102>>, <<97, 98, 99, 100, 101, 102, 103>>>>

REPETITIVE_PATTERNS ==
  <<<<97, 97, 97>>, <<98, 98, 98>>, <<99, 99, 99>>, <<49, 49, 49>>, <<50, 50, 50>>, <<51, 51, 51>>,
    <<97, 97, 97, 97>>, <<98, 98, 98, 98>>, <<49, 49, 49, 49>>, <<50, 50, 50, 50>>,
    <<97, 97, 97, 97, 97>>, <<49, 49, 49, 49, 49>>>>

SEQUENTIAL_PATTERNS ==
  <<<<97, 98, 99>>, <<49, 50, 51>>, <<120, 121, 122>>,
    <<97, 98, 99, 100>>, <<49, 50, 51, 52>>, <<119, 120, 121, 122>>,
    <<97, 98, 99, 100, 101>>, <<49, 50, 51, 52, 53>>>>

\* allowed.split('') holds every character of the password
checkAllowedCharacters(pw, allowed) ==
  IF allowed = <<>> THEN TRUE
  ELSE \A i \in DOMAIN pw : \E j \in DOMAIN allowed[1] : allowed[1][j] = pw[i]

checkCommonPassword_AnySubstring(pw) == \E c \in COMMON_PASSWORDS : Includes(toLowerCase(pw), c)

\* COMMON_PASSWORDS.has(password.toLowerCase())
checkCommonPassword(pw) == toLowerCase(pw) \in COMMON_PASSWORDS

\* the least element of a non-empty set of integers
Least(S) == CHOOSE x \in S : \A y \in S : x <= y

\* <<>> for null, <<text>> for the description of the first pattern found
checkKeyboardPatterns(pw) ==
  LET lower == toLowerCase(pw)
      hits == {i \in DOMAIN KEYBOARD_PATTERNS : Includes(lower, KEYBOARD_PATTERNS[i])}
  IN  IF hits = {} THEN <<>>
      ELSE <<<<107, 101, 121, 98, 111, 97, 114, 100, 32, 112, 97, 116, 116, 101, 114, 110, 32, 34>> \o KEYBOARD_PATTERNS[Least(hits)] \o <<34>>>>

checkRepetitivePatterns(pw) ==
  LET lower == toLowerCase(pw)
      hits == {i \in DOMAIN REPETITIVE_PATTERNS : Includes(lower, REPETITIVE_PATTERNS[i])}
      runs == {i \in 1..(Len(lower) - 2) : lower[i] = lower[i + 1] /\ lower[i] = lower[i + 2]}
  IN  IF hits # {}
      THEN <<<<114, 101, 112, 101, 116, 105, 116, 105, 118, 101, 32, 112, 97, 116, 116, 101, 114, 110, 32, 34>> \o REPETITIVE_PATTERNS[Least(hits)] \o <<34>>>>
      ELSE IF runs # {}
      THEN <<<<114, 101, 112, 101, 97, 116, 101, 100, 32, 99, 104, 97, 114, 97, 99, 116, 101, 114, 32, 34>> \o <<lower[Least(runs)]>> \o <<34>>>>
      ELSE <<>>

checkSequentialPatterns(pw) ==
  LET lower == toLowerCase(pw)
      hits == {i \in DOMAIN SEQUENTIAL_PATTERNS :
                 \/ Includes(lower, SEQUENTIAL_PATTERNS[i])
                 \/ Includes(lower, Reverse(SEQUENTIAL_PATTERNS[i]))}
  IN  IF hits = {} THEN <<>>
      ELSE LET pattern == SEQUENTIAL_PATTERNS[Least(hits)]
           IN  IF Includes(lower, pattern)
               THEN <<<<115, 101, 113, 117, 101, 110, 116, 105, 97, 108, 32, 112, 97, 116, 116, 101, 114, 110, 32, 34>> \o pattern \o <<34>>>>
               ELSE <<<<115, 101, 113, 117, 101, 110, 116, 105, 97, 108, 32, 112, 97, 116, 116, 101, 114, 110, 32, 34>> \o pattern \o <<34, 32, 40, 114, 101, 118, 101, 114, 115, 101, 100, 41>>>>

\* /19\d{2}|20\d{2}/: the leftmost year
checkDatePatterns(pw) ==
  LET years == {i \in 1..(Len(pw) - 3) :
                  /\ \/ pw[i] = 49 /\ pw[i + 1] = 57
                     \/ pw[i] = 50 /\ pw[i + 1] = 48
                  /\ pw[i + 2] \in 48..57
                  /\ pw[i + 3] \in 48..57}
  IN  IF years = {} THEN <<>>
      ELSE <<<<121, 101, 97, 114, 32, 112, 97, 116, 116, 101, 114, 110, 32, 34>> \o SubSeq(pw, Least(years), Least(years) + 3) \o <<34>>>>

\* an optional field of a context that is present and not the empty string
Truthy(ctx, field) == ctx # <<>> /\ field \in DOMAIN ctx[1] /\ ctx[1][field] # <<>>

\* email.split('@')[0]
localPartOf(email) ==
  LET ats == {i \in DOMAIN email : email[i] = 64}
  IN  IF ats = {} THEN email ELSE SubSeq(email, 1, Least(ats) - 1)

\* usernameLower.replace(/[^a-z0-9]/g, '')
alphanumericOf(s) == SelectSeq(s, LAMBDA c : c \in (97..122) \cup (48..57))

checkContextWords(pw, contextWords, ctx) ==
  LET lower == toLowerCase(pw)
      words == SelectSeq(contextWords, LAMBDA w : w # <<>> /\ Includes(lower, toLowerCase(w)))
      username ==
        IF Truthy(ctx, "username")
           /\ (\/ Includes(lower, toLowerCase(ctx[1].username))
               \/ Includes(lower, alphanumericOf(toLowerCase(ctx[1].username))))
        THEN <<<<117, 115, 101, 114, 110, 97, 109, 101>>>> ELSE <<>>
      email ==
        IF Truthy(ctx, "email")
           /\ localPartOf(ctx[1].email) # <<>>
           /\ Includes(lower, toLowerCase(localPartOf(ctx[1].email)))
        THEN <<<<101, 109, 97, 105, 108>>>> ELSE <<>>
      firstName ==
        IF Truthy(ctx, "firstName") /\ Includes(lower, toLowerCase(ctx[1].firstName))
        THEN <<<<102, 105, 114, 115, 116, 32, 110, 97, 109, 101>>>> ELSE <<>>
      lastName ==
        IF Truthy(ctx, "lastName") /\ Includes(lower, toLowerCase(ctx[1].lastName))
        THEN <<<<108, 97, 115, 116, 32, 110, 97, 109, 101>>>> ELSE <<>>
  IN  words \o username \o email \o firstName \o lastName

\* the custom rules of the model; validate is an opaque predicate of the caller,
\* given here by its kind:
\*   "uppercase"  (pwd) => /[A-Z]/.test(pwd)
\*   "digit"      (pwd) => /[0-9]/.test(pwd)
\*   "throws"     a predicate that throws
\*   "firstDigit" (pwd) => pwd.match(/[0-9]/)[0] !== '0', which throws a TypeError
\*                when the password has no digit (match returns null)
PreferUppercaseRule ==
  [name |-> <<112, 114, 101, 102, 101, 114, 45, 117, 112, 112, 101, 114, 99, 97, 115, 101>>, validate |-> "uppercase",
   message |-> <<80, 97, 115, 115, 119, 111, 114, 100, 32, 115, 104, 111, 117, 108, 100, 32, 99, 111, 110, 116, 97, 105, 110, 32, 97, 116, 32, 108, 101, 97, 115, 116, 32, 111, 110, 101, 32, 117, 112, 112, 101, 114, 99, 97, 115, 101, 32, 108, 101, 116, 116, 101, 114>>, severity |-> "warning"]

RequireDigitRule ==
  [name |-> <<114, 101, 113, 117, 105, 114, 101, 45, 100, 105, 103, 105, 116>>, validate |-> "digit",
   message |-> <<80, 97, 115, 115, 119, 111, 114, 100, 32, 109, 117, 115, 116, 32, 99, 111, 110, 116, 97, 105, 110, 32, 97, 32, 100, 105, 103, 105, 116>>, severity |-> "error"]

ThrowingRule ==
  [name |-> <<98, 114, 111, 107, 101, 110>>, validate |-> "throws",
   message |-> <<110, 101, 118, 101, 114, 32, 114, 101, 112, 111, 114, 116, 101, 100>>, severity |-> "error"]

NoLeadingZeroRule ==
  [name |-> <<110, 111, 45, 108, 101, 97, 100, 105, 110, 103, 45, 122, 101, 114, 111>>, validate |-> "firstDigit",
   message |-> <<84, 104, 101, 32, 102, 105, 114, 115, 116, 32, 100, 105, 103, 105, 116, 32, 109, 117, 115, 116, 32, 110, 111, 116, 32, 98, 101, 32, 48>>, severity |-> "error"]

\* rule.validate(normalized, context) throws
ruleThrows(rule, normalized, ctx) ==
  \/ rule.validate = "throws"
  \/ rule.validate = "firstDigit" /\ ~HasDigit(normalized)

\* rule.validate(normalized, context)
ruleAccepts(rule, normalized, ctx) ==
  CASE rule.validate = "uppercase" -> HasUppercase(normalized)
    [] rule.validate = "digit" -> HasDigit(normalized)
    [] rule.validate = "firstDigit" ->
         SelectSeq(normalized, LAMBDA c : c \in 48..57)[1] # 48
    [] OTHER -> FALSE

lengthViolations_MaxInclusive(normalized, policy) ==
  (IF Len(normalized) < policy.minLength
   THEN <<[field |-> "length",
           message |-> <<80, 97, 115, 115, 119, 111, 114, 100, 32, 109, 117, 115, 116, 32, 98, 101, 32, 97, 116, 32, 108, 101, 97, 115, 116, 32>> \o Decimal(policy.minLength) \o <<32, 99, 104, 97, 114, 97, 99, 116, 101, 114, 115, 32, 108, 111, 110, 103>>,
           severity |-> "error",
           details |-> <<<<67, 117, 114, 114, 101, 110, 116, 32, 108, 101, 110, 103, 116, 104, 58, 32>> \o Decimal(Len(normalized))>>]>>
   ELSE <<>>)
  \o
  (IF Len(normalized) >= policy.maxLength
   THEN <<[field |-> "length",
           message |-> <<80, 97, 115, 115, 119, 111, 114, 100, 32, 109, 117, 115, 116, 32, 110, 111, 116, 32, 101, 120, 99, 101, 101, 100, 32>> \o Decimal(policy.maxLength) \o <<32, 99, 104, 97, 114, 97, 99, 116, 101, 114, 115>>,
           severity |-> "error",
           details |-> <<<<67, 117, 114, 114, 101, 110, 116, 32, 108, 101, 110, 103, 116, 104, 58, 32>> \o Decimal(Len(normalized))>>]>>
   ELSE <<>>)

\* 1. length checks; details is <<>> when the violation has none
lengthViolations(normalized, policy) ==
  (IF Len(normalized) < policy.minLength
   THEN <<[field |-> "length",
           message |-> <<80, 97, 115, 115, 119, 111, 114, 100, 32, 109, 117, 115, 116, 32, 98, 101, 32, 97, 116, 32, 108, 101, 97, 115, 116, 32>> \o Decimal(policy.minLength) \o <<32, 99, 104, 97, 114, 97, 99, 116, 101, 114, 115, 32, 108, 111, 110, 103>>,
           severity |-> "error",
           details |-> <<<<67, 117, 114, 114, 101, 110, 116, 32, 108, 101, 110, 103, 116, 104, 58, 32>> \o Decimal(Len(normalized))>>]>>
   ELSE <<>>)
  \o
  (IF Len(normalized) > policy.maxLength
   THEN <<[field |-> "length",
           message |-> <<80, 97, 115, 115, 119, 111, 114, 100, 32, 109, 117, 115, 116, 32, 110, 111, 116, 32, 101, 120, 99, 101, 101, 100, 32>> \o Decimal(policy.maxLength) \o <<32, 99, 104, 97, 114, 97, 99, 116, 101, 114, 115>>,
           severity |-> "error",
           details |-> <<<<67, 117, 114, 114, 101, 110, 116, 32, 108, 101, 110, 103, 116, 104, 58, 32>> \o Decimal(Len(normalized))>>]>>
   ELSE <<>>)

\* 2. character restrictions
characterViolations(normalized, policy) ==
  IF policy.allowedChars # <<>> /\ ~checkAllowedCharacters(normalized, policy.allowedChars)
  THEN <<[field |-> "characters",
          message |-> <<80, 97, 115, 115, 119, 111, 114, 100, 32, 99, 111, 110, 116, 97, 105, 110, 115, 32, 100, 105, 115, 97, 108, 108, 111, 119, 101, 100, 32, 99, 104, 97, 114, 97, 99, 116, 101, 114, 115>>,
          severity |-> "error",
          details |-> <<>>]>>
  ELSE <<>>

\* 3. common password check
blocklistViolations(normalized, policy) ==
  IF Len(policy.blocklists) > 0 /\ checkCommonPassword(normalized)
  THEN <<[field |-> "blocklist",
          message |-> <<84, 104, 105, 115, 32, 112, 97, 115, 115, 119, 111, 114, 100, 32, 104, 97, 115, 32, 98, 101, 101, 110, 32, 102, 111, 117, 110, 100, 32, 105, 110, 32, 100, 97, 116, 97, 32, 98, 114, 101, 97, 99, 104, 101, 115, 32, 97, 110, 100, 32, 105, 115, 32, 116, 111, 111, 32, 99, 111, 109, 109, 111, 110>>,
          severity |-> "error",
          details |-> <<<<80, 97, 115, 115, 119, 111, 114, 100, 32, 97, 112, 112, 101, 97, 114, 115, 32, 105, 110, 32, 99, 111, 109, 109, 111, 110, 32, 112, 97, 115, 115, 119, 111, 114, 100, 32, 108, 105, 115, 116>>>>]>>
  ELSE <<>>

\* one pattern finding as a violation
patternViolation(found, message, severity) ==
  IF found = <<>> THEN <<>>
  ELSE <<[field |-> "pattern",
          message |-> message,
          severity |-> severity,
          details |-> <<<<70, 111, 117, 110, 100, 32>> \o found[1]>>]>>

patternViolations_KeyboardIsError(normalized, policy) ==
  IF policy.detectPatterns
  THEN patternViolation(checkKeyboardPatterns(normalized),
                        <<80, 97, 115, 115, 119, 111, 114, 100, 32, 99, 111, 110, 116, 97, 105, 110, 115, 32, 99, 111, 109, 109, 111, 110, 32, 107, 101, 121, 98, 111, 97, 114, 100, 32, 112, 97, 116, 116, 101, 114, 110>>, "error")
       \o patternViolation(checkRepetitivePatterns(normalized),
                           <<80, 97, 115, 115, 119, 111, 114, 100, 32, 99, 111, 110, 116, 97, 105, 110, 115, 32, 114, 101, 112, 101, 116, 105, 116, 105, 118, 101, 32, 112, 97, 116, 116, 101, 114, 110>>, "warning")
       \o patternViolation(checkSequentialPatterns(normalized),
                           <<80, 97, 115, 115, 119, 111, 114, 100, 32, 99, 111, 110, 116, 97, 105, 110, 115, 32, 115, 101, 113, 117, 101, 110, 116, 105, 97, 108, 32, 112, 97, 116, 116, 101, 114, 110>>, "warning")
       \o patternViolation(checkDatePatterns(normalized),
                           <<80, 97, 115, 115, 119, 111, 114, 100, 32, 99, 111, 110, 116, 97, 105, 110, 115, 32, 100, 97, 116, 101, 32, 112, 97, 116, 116, 101, 114, 110>>, "warning")
  ELSE <<>>

\* 4. pattern detection
patternViolations(normalized, policy) ==
  IF policy.detectPatterns
  THEN patternViolation(checkKeyboardPatterns(normalized),
                        <<80, 97, 115, 115, 119, 111, 114, 100, 32, 99, 111, 110, 116, 97, 105, 110, 115, 32, 99, 111, 109, 109, 111, 110, 32, 107, 101, 121, 98, 111, 97, 114, 100, 32, 112, 97, 116, 116, 101, 114, 110>>, "warning")
       \o patternViolation(checkRepetitivePatterns(normalized),
                           <<80, 97, 115, 115, 119, 111, 114, 100, 32, 99, 111, 110, 116, 97, 105, 110, 115, 32, 114, 101, 112, 101, 116, 105, 116, 105, 118, 101, 32, 112, 97, 116, 116, 101, 114, 110>>, "warning")
       \o patternViolation(checkSequentialPatterns(normalized),
                           <<80, 97, 115, 115, 119, 111, 114, 100, 32, 99, 111, 110, 116, 97, 105, 110, 115, 32, 115, 101, 113, 117, 101, 110, 116, 105, 97, 108, 32, 112, 97, 116, 116, 101, 114, 110>>, "warning")
       \o patternViolation(checkDatePatterns(normalized),
                           <<80, 97, 115, 115, 119, 111, 114, 100, 32, 99, 111, 110, 116, 97, 105, 110, 115, 32, 100, 97, 116, 101, 32, 112, 97, 116, 116, 101, 114, 110>>, "warning")
  ELSE <<>>

contextViolations_OnePerSource(normalized, policy, ctx) ==
  IF Len(policy.contextWords) > 0 \/ ctx # <<>>
  THEN LET foundWords == checkContextWords(normalized, policy.contextWords, ctx)
       IN  [i \in 1..Len(foundWords) |->
              [field |-> "context",
               message |-> <<80, 97, 115, 115, 119, 111, 114, 100, 32, 99, 111, 110, 116, 97, 105, 110, 115, 32, 112, 101, 114, 115, 111, 110, 97, 108, 32, 111, 114, 32, 115, 101, 114, 118, 105, 99, 101, 45, 114, 101, 108, 97, 116, 101, 100, 32, 105, 110, 102, 111, 114, 109, 97, 116, 105, 111, 110>>,
               severity |-> "error",
               details |-> <<<<70, 111, 117, 110, 100, 58, 32>> \o foundWords[i]>>]]
  ELSE <<>>

\* 5. context word check
contextViolations(normalized, policy, ctx) ==
  IF Len(policy.contextWords) > 0 \/ ctx # <<>>
  THEN LET foundWords == checkContextWords(normalized, policy.contextWords, ctx)
       IN  IF Len(foundWords) > 0
           THEN <<[field |-> "context",
                   message |-> <<80, 97, 115, 115, 119, 111, 114, 100, 32, 99, 111, 110, 116, 97, 105, 110, 115, 32, 112, 101, 114, 115, 111, 110, 97, 108, 32, 111, 114, 32, 115, 101, 114, 118, 105, 99, 101, 45, 114, 101, 108, 97, 116, 101, 100, 32, 105, 110, 102, 111, 114, 109, 97, 116, 105, 111, 110>>,
                   severity |-> "error",
                   details |-> <<<<70, 111, 117, 110, 100, 58, 32>> \o Join(foundWords, <<44, 32>>)>>]>>
           ELSE <<>>
  ELSE <<>>

\* 6. custom rules, up to the first one that throws
customViolations(normalized, policy, ctx) ==
  Flatten([i \in 1..Len(policy.customRules) |->
             IF ruleAccepts(policy.customRules[i], normalized, ctx) THEN <<>>
             ELSE <<[field |-> "custom",
                     message |-> policy.customRules[i].message,
                     severity |-> policy.customRules[i].severity,
                     details |-> <<<<82, 117, 108, 101, 58, 32>> \o policy.customRules[i].name>>]>>])

RECURSIVE penaltyOf(_)
\* what the loop over the violations subtracts from 100
penaltyOf(violations) ==
  IF violations = <<>> THEN 0
  ELSE penaltyOf(Tail(violations))
       + (IF Head(violations).severity = "error" THEN 20
          ELSE IF Head(violations).severity = "warning" THEN 10 ELSE 0)

scoreOf_Unclamped(violations) == 100 - penaltyOf(violations)

\* let score = 100; the loop; score = Math.max(0, score)
scoreOf(violations) == Max(0, 100 - penaltyOf(violations))

hasErrors_AnyViolation(violations) == Len(violations) > 0

\* violations.some(v => v.severity === 'error')
hasErrors(violations) == \E i \in DOMAIN violations : violations[i].severity = "error"

validatePassword_StopsAtLength(pw, cfg, ctx) ==
  LET policy == mergePolicy(cfg)
      normalized == normalizePassword(pw, policy.normalization)
      violations ==
        IF lengthViolations(normalized, policy) # <<>>
        THEN lengthViolations(normalized, policy)
        ELSE characterViolations(normalized, policy)
             \o blocklistViolations(normalized, policy)
             \o patternViolations(normalized, policy)
             \o contextViolations(normalized, policy, ctx)
             \o customViolations(normalized, policy, ctx)
  IN  IF \E i \in DOMAIN policy.customRules : ruleThrows(policy.customRules[i], normalized, ctx)
      THEN [threw |-> TRUE]
      ELSE [threw |-> FALSE,
            valid |-> ~hasErrors(violations),
            violations |-> violations,
            score |-> scoreOf(violations),
            normalized |-> normalized]

\* the promise of validatePassword: rejected (threw) when a custom rule throws,
\* else resolved with the PolicyResult
validatePassword(pw, cfg, ctx) ==
  LET policy == mergePolicy(cfg)
      normalized == normalizePassword(pw, policy.normalization)
      violations ==
        lengthViolations(normalized, policy)
        \o characterViolations(normalized, policy)
        \o blocklistViolations(normalized, policy)
        \o patternViolations(normalized, policy)
        \o contextViolations(normalized, policy, ctx)
        \o customViolations(normalized, policy, ctx)
  IN  IF \E i \in DOMAIN policy.customRules : ruleThrows(policy.customRules[i], normalized, ctx)
      THEN [threw |-> TRUE]
      ELSE [threw |-> FALSE,
            valid |-> ~hasErrors(violations),
            violations |-> violations,
            score |-> scoreOf(violations),
            normalized |-> normalized]

\* ---------------------------------------------------------------------------
\* The strength classifications; a score or an entropy is in millionths
\* ---------------------------------------------------------------------------

generatorDetermineStrength_MediumAbove40(entropy) ==
  IF entropy <= 40 * MicroBits THEN "weak"
  ELSE IF entropy < 60 * MicroBits THEN "medium"
  ELSE IF entropy < 80 * MicroBits THEN "strong"
  ELSE "very-strong"

\* generators/password.ts: determineStrength(entropy)
generatorDetermineStrength(entropy) ==
  IF entropy < 40 * MicroBits THEN "weak"
  ELSE IF entropy < 60 * MicroBits THEN "medium"
  ELSE IF entropy < 80 * MicroBits THEN "strong"
  ELSE "very-strong"

\* analyzer/strength.ts: determineStrength(score), of analyzePasswordStrength
analyzerDetermineStrength(v) ==
  IF v < 40 * MicroBits THEN "weak"
  ELSE IF v < 60 * MicroBits THEN "medium"
  ELSE IF v < 80 * MicroBits THEN "strong"
  ELSE "very-strong"

\* analyzer/quick-check.ts: determineStrength(score), of quickStrengthCheck
quickCheckDetermineStrength(v) ==
  IF v < 40 * MicroBits THEN "weak"
  ELSE IF v < 60 * MicroBits THEN "medium"
  ELSE IF v < 80 * MicroBits THEN "strong"
  ELSE "very-strong"

\* generatePassphrase: the if-chain on entropy
passphraseStrength(entropy) ==
  IF entropy < 40 * MicroBits THEN "weak"
  ELSE IF entropy < 60 * MicroBits THEN "medium"
  ELSE IF entropy < 80 * MicroBits THEN "strong"
  ELSE "very-strong"

\* ---------------------------------------------------------------------------
\* The batch functions
\* ---------------------------------------------------------------------------

\* an object whose optional keys may be left out is a function on the keys it has;
\* <<>> is the object without keys

spread_FirstWins(a, b) ==
  [k \in DOMAIN a \cup DOMAIN b |-> IF k \in DOMAIN a THEN a[k] ELSE b[k]]

\* { ...a, ...b }
spread(a, b) ==
  [k \in DOMAIN a \cup DOMAIN b |-> IF k \in DOMAIN b THEN b[k] ELSE a[k]]

\* an ExpiryOptions object as calculateExpiry reads it: a key that is left out reads
\* as undefined
optionsOf(o) ==
  [riskProfile |-> IF "riskProfile" \in DOMAIN o THEN o.riskProfile ELSE Undefined,
   hasMFA |-> IF "hasMFA" \in DOMAIN o THEN o.hasMFA ELSE FALSE,
   isPrivileged |-> IF "isPrivileged" \in DOMAIN o THEN o.isPrivileged ELSE FALSE,
   hashAlgorithm |-> IF "hashAlgorithm" \in DOMAIN o THEN o.hashAlgorithm ELSE Undefined,
   daysSinceBreachFound |->
     IF "daysSinceBreachFound" \in DOMAIN o THEN o.daysSinceBreachFound ELSE <<>>,
   isBreached |-> IF "isBreached" \in DOMAIN o THEN o.isBreached ELSE FALSE,
   hasSimilarBreaches |-> IF "hasSimilarBreaches" \in DOMAIN o THEN o.hasSimilarBreaches ELSE FALSE]

\* { ...sharedOptions, ...item.options }; item.options is <<>> when the item has none
batchOptions(shared, item) ==
  IF item.options = <<>> THEN spread(shared, <<>>) ELSE spread(shared, item.options[1])

\* contexts?.[i], for the i-th password counted from 1
contextAt(ctxs, i) ==
  IF ctxs = <<>> THEN <<>>
  ELSE IF i > Len(ctxs[1]) THEN <<>>
  ELSE <<ctxs[1][i]>>


\* ---------------------------------------------------------------------------
\* src/generators/password.ts : the password generator
\* ---------------------------------------------------------------------------

UPPERCASE == <<65, 66, 67, 68, 69, 70, 71, 72, 73, 74, 75, 76, 77, 78, 79, 80, 81, 82, 83, 84, 85, 86, 87, 88, 89, 90>>

LOWERCASE == <<97, 98, 99, 100, 101, 102, 103, 104, 105, 106, 107, 108, 109, 110, 111, 112, 113, 114, 115, 116, 117, 118, 119, 120, 121, 122>>

NUMBERS == <<48, 49, 50, 51, 52, 53, 54, 55, 56, 57>>

SYMBOLS == <<33, 64, 35, 36, 37, 94, 38, 42, 40, 41, 95, 43, 45, 61, 91, 93, 123, 125, 124, 59, 58, 44, 46, 60, 62, 63>>

AMBIGUOUS_CHARS == <<48, 79, 108, 49, 73>>

\* the values of one byte of crypto.getRandomValues
ByteRange == 256

\* the code units of a string, as a set
CharsOf(s) == {s[i] : i \in DOMAIN s}

\* if (options.customCharset): undefined and the empty string are both falsy, and
\* <<>> stands for either
hasCustomCharset(o) == o.customCharset # <<>>

buildCharset(o) ==
  IF hasCustomCharset(o) THEN o.customCharset
  ELSE LET charset == (IF o.includeUppercase THEN UPPERCASE ELSE <<>>)
                      \o (IF o.includeLowercase THEN LOWERCASE ELSE <<>>)
                      \o (IF o.includeNumbers THEN NUMBERS ELSE <<>>)
                      \o (IF o.includeSymbols THEN SYMBOLS ELSE <<>>)
       IN  IF o.excludeAmbiguous /\ Len(charset) > 0
           THEN SelectSeq(charset, LAMBDA c : c \notin CharsOf(AMBIGUOUS_CHARS))
           ELSE charset

\* validateOptions throws
validateOptionsThrows(o) ==
  \/ o.length < 8
  \/ o.length > 128
  \/ Len(buildCharset(o)) = 0
  \/ Len(buildCharset(o)) < 4 /\ ~hasCustomCharset(o)

\* the regular expressions of ensureCharacterDiversity
MatchesUpper(s) == \E i \in DOMAIN s : s[i] \in 65..90

MatchesLower(s) == \E i \in DOMAIN s : s[i] \in 97..122

MatchesNumber(s) == \E i \in DOMAIN s : s[i] \in 48..57

MatchesSymbol(s) ==
  \E i \in DOMAIN s : s[i] \in CharsOf(<<33, 64, 35, 36, 37, 94, 38, 42, 40, 41, 95, 43, 45, 61, 91, 93, 123, 125, 124, 59, 58, 44, 46, 60, 62, 63>>)

ensureCharacterDiversity(pw, o) ==
  /\ o.includeUppercase => MatchesUpper(pw)
  /\ o.includeLowercase => MatchesLower(pw)
  /\ o.includeNumbers => MatchesNumber(pw)
  /\ o.includeSymbols => MatchesSymbol(pw)

\* const limit = Math.floor(256 / max) * max
randomLimit(max) == (ByteRange \div max) * max

\* getRandomInt(max) for max > 0: the bytes at or above the limit are drawn again,
\* so the call returns byte % max for a byte under the limit
getRandomIntAccepts(byte, max) == byte < randomLimit(max)

getRandomInt(byte, max) == byte % max

\* const maxAttempts = 100
maxAttempts == 100

\* floor(Math.log2(c) * 10^6) for the charsets of the generator's model
generatorLog2Micro(c) ==
  CASE c = 2 -> 1000000
    [] c = 8 -> 3000000
    [] c = 52 -> 5700439
    [] c = 88 -> 6459431
    [] c = 257 -> 8005625

\* Math.log2(Math.pow(charsetSize, length)), in micro-bits
generatorCalculateEntropy(charsetSize, length) ==
  IF charsetSize = 0 \/ length = 0 THEN 0 ELSE generatorLog2Micro(charsetSize) * length

\* Math.round(entropy * 10) / 10, in micro-bits
roundToTenth(e) == ((e + (MicroBits \div 20)) \div (MicroBits \div 10)) * (MicroBits \div 10)

\* the value generatePassword returns for the password of its last attempt
generatedPassword(pw, o) ==
  LET entropy == generatorCalculateEntropy(Len(buildCharset(o)), o.length)
  IN  [password |-> pw, entropy |-> roundToTenth(entropy),
       strength |-> generatorDetermineStrength(entropy)]

\* ---------------------------------------------------------------------------
\* the passphrase generator's random index
\* ---------------------------------------------------------------------------

\* DICEWARE_WORDS.length
DicewareWordCount == 440

\* the element of new Uint32Array(1) is kept as two 16-bit halves <<high, low>>
HalfRange == 65536

\* getRandomIndex(max) on the random element: (high * 65536 + low) % max, computed
\* half by half so that no intermediate value leaves 32 bits
getRandomIndex(source, max) ==
  ((source[1] % max) * (HalfRange % max) + (source[2] % max)) % max

\* ---------------------------------------------------------------------------
\* src/utils/argon2.ts : hashPassword and verifyPassword around the Argon2 engine
\* ---------------------------------------------------------------------------

DEFAULT_OPTIONS == [memory |-> 19456, iterations |-> 2, parallelism |-> 1, hashLength |-> 32]

\* Argon2Type.Argon2id
Argon2id == 2

\* generateSalt(16)
SaltLength == 16

\* the parameters hashPassword hands to argon2.hash
hashParameters(pw, saltBytes, o) ==
  LET opts == spread(DEFAULT_OPTIONS, o)
  IN  [pass |-> pw, salt |-> saltBytes, type |-> Argon2id, mem |-> opts.memory,
       time |-> opts.iterations, parallelism |-> opts.parallelism, hashLen |-> opts.hashLength]

\* What a call did: it returned a value or it threw one. A thrown value is
\* [isError, message]: an instance of Error, or another object with a message.
Returned(v) == [threw |-> FALSE, value |-> v]

Thrown(v) == [threw |-> TRUE, value |-> v]

\* hashPassword after the salt is drawn and argon2.hash has answered or thrown
hashPassword(saltBytes, engineDid) ==
  IF engineDid.threw
  THEN Thrown([isError |-> TRUE,
               message |-> <<70, 97, 105, 108, 101, 100, 32, 116, 111, 32, 104, 97, 115, 104, 32, 112, 97, 115, 115, 119, 111, 114, 100, 58, 32>>
                           \o (IF engineDid.value.isError THEN engineDid.value.message
                               ELSE <<85, 110, 107, 110, 111, 119, 110, 32, 101, 114, 114, 111, 114>>)])
  ELSE Returned([hash |-> engineDid.value.hash, salt |-> saltBytes,
                 encoded |-> engineDid.value.encoded])

\* verifyPassword after argon2.verify has answered or thrown
verifyPassword(engineDid) ==
  IF engineDid.threw THEN Returned(FALSE) ELSE Returned(engineDid.value)

\* ---------------------------------------------------------------------------
\* the default tables handed out by getDefaultPolicy, createPolicy (strength.ts),
\* getDefaultArgon2Options (argon2.ts) and getDefaultOptions (password.ts)
\* ---------------------------------------------------------------------------

\* the fields of DEFAULT_POLICY that are arrays: an object spread copies the
\* reference, not the array
ArrayFields == {"blocklists", "contextWords", "customRules"}

\* What a caller holds: the fields of the returned object with the present contents
\* of their arrays, and the array fields that still are the arrays of DEFAULT_POLICY.
\* return { ...DEFAULT_POLICY }
getDefaultPolicy(defaults) == [kind |-> "policy", value |-> defaults, shared |-> ArrayFields]

\* return { ...DEFAULT_POLICY, ...config }
createPolicy(defaults, cfg) ==
  [kind |-> "policy", value |-> spread(defaults, cfg), shared |-> ArrayFields \ DOMAIN cfg]

\* return { ...DEFAULT_OPTIONS }: every field is a number
getDefaultArgon2Options == [kind |-> "argon2", value |-> DEFAULT_OPTIONS, shared |-> {}]

\* a new object literal on every call
getDefaultOptions ==
  [kind |-> "generator",
   value |-> [length |-> 16, includeUppercase |-> TRUE, includeLowercase |-> TRUE,
              includeNumbers |-> TRUE, includeSymbols |-> TRUE, excludeAmbiguous |-> FALSE],
   shared |-> {}]

\* object.field = v: the object gets a value of its own
overwriteField(object, field, v) ==
  [object EXCEPT !.value[field] = v, !.shared = @ \ {field}]

\* object.field.push(x), as the holder of the object sees it
pushIntoField(object, field, x) == [object EXCEPT !.value[field] = Append(@, x)]

\* object.field.push(x), as DEFAULT_POLICY sees it: the array grows when it is the
\* one the object refers to
pushReaches(defaults, object, field, x) ==
  IF field \in object.shared THEN [defaults EXCEPT ![field] = Append(@, x)] ELSE defaults
\* ---------------------------------------------------------------------------
\* The callers: one call of an exported function at a time
\* ---------------------------------------------------------------------------

\* "!" (a symbol only: 5 bits a character), "aB3!" (all four ASCII classes),
\* "é" (a non-ASCII letter)
ExpiryBases == {<<33>>, <<97, 66, 51, 33>>, <<233>>}

ExpiryLens == {k \in 0..MaxPasswordLen : k % 4 \in {0, 3}} \cup {MaxPasswordLen}

ExpiryPasswords == {Cycle(b, k) : b \in ExpiryBases, k \in ExpiryLens}

ExpiryOptionSets ==
  [riskProfile : {Undefined, "low", "medium", "high"},
   hasMFA : BOOLEAN,
   isPrivileged : BOOLEAN,
   hashAlgorithm : {Undefined, "md5"},
   daysSinceBreachFound : {<<>>, <<-1>>, <<0>>, <<89>>, <<90>>},
   isBreached : BOOLEAN,
   hasSimilarBreaches : BOOLEAN]

\* createdAt: midnight of the epoch day, or 13:00 of it
CreatedAts == {0, 13}

NowDays == {-1, 0, 22, 23, MaxNowDay}

Nows == {d * HoursPerDay : d \in NowDays}

\* change of the local UTC offset across a setDate, in hours
DstShifts == {-1, 0, 1}

NoOptions ==
  [riskProfile |-> Undefined, hasMFA |-> FALSE, isPrivileged |-> FALSE, hashAlgorithm |-> Undefined,
   daysSinceBreachFound |-> <<>>, isBreached |-> FALSE, hasSimilarBreaches |-> FALSE]

Idle ==
  /\ pc = "idle"
  /\ password = <<>>
  /\ createdAt = 0
  /\ now = 0
  /\ dstShift = 0
  /\ options = NoOptions
  /\ estimate = <<>>
  /\ config = <<>>
  /\ context = <<>>
  /\ result = <<>>
  /\ score = 0
  /\ strengths = <<>>
  /\ crackEntropy = 0
  /\ crackAlgorithm = Undefined
  /\ crackCost = 0
  /\ items = <<>>
  /\ sharedOptions = <<>>
  /\ passwords = <<>>
  /\ contexts = <<>>
  /\ results = <<>>
  /\ cursor = 0
  /\ generatorOptions = <<>>
  /\ generatedChars = <<>>
  /\ attempts = 0
  /\ generated = <<>>
  /\ randomMax = 0
  /\ randomSource = <<>>
  /\ randomIndex = <<>>
  /\ hashOptions = <<>>
  /\ salt = <<>>
  /\ encoded = <<>>
  /\ engine = <<>>
  /\ outcome = <<>>
  /\ defaultPolicy = DEFAULT_POLICY
  /\ held = <<>>

Init == Idle

\* await calculateExpiry(password, createdAt, options)
CallCalculateExpiry ==
  /\ pc = "idle"
  /\ \E pw \in ExpiryPasswords, c \in CreatedAts, n \in Nows, s \in DstShifts, o \in ExpiryOptionSets :
       /\ password' = pw
       /\ createdAt' = c
       /\ now' = n
       /\ dstShift' = s
       /\ options' = o
       /\ estimate' = calculateExpiry(pw, c, o, n, s)
  /\ pc' = "expiry"
  /\ UNCHANGED <<generatorVars, randomVars, argon2Vars, policyVars, strengthVars, crackVars, batchVars>>
  /\ UNCHANGED defaultsVars

\* the passwords handed to validatePassword: runs of "a" up to MaxPolicyLen, and
\*   "password", "Admin", "123456"      common passwords
\*   "qwertyuiopasdfgh"                 a keyboard run of 16 characters
\*   "correcthorsebatterystaple"        25 characters, no finding
\*   "ThisIsAValidPassword123"          23 characters, one sequential pattern
\*   "John.Doe-acme2024"                user and service names and a year
\*   "xyz111cba"                        three pattern kinds
\*   U+FB01 "ne"                        a ligature: 3 code units, 4 after NFKC or NFKD
\*   "cafe" U+0301                      5 code units, 4 after NFC or NFKC
PolicyPasswords ==
  {Cycle(<<97>>, k) : k \in 0..MaxPolicyLen}
  \cup {<<112, 97, 115, 115, 119, 111, 114, 100>>, <<65, 100, 109, 105, 110>>, <<49, 50, 51, 52, 53, 54>>, <<113, 119, 101, 114, 116, 121, 117, 105, 111, 112, 97, 115, 100, 102, 103, 104>>,
        <<99, 111, 114, 114, 101, 99, 116, 104, 111, 114, 115, 101, 98, 97, 116, 116, 101, 114, 121, 115, 116, 97, 112, 108, 101>>, <<84, 104, 105, 115, 73, 115, 65, 86, 97, 108, 105, 100, 80, 97, 115, 115, 119, 111, 114, 100, 49, 50, 51>>,
        <<74, 111, 104, 110, 46, 68, 111, 101, 45, 97, 99, 109, 101, 50, 48, 50, 52>>, <<120, 121, 122, 49, 49, 49, 99, 98, 97>>, <<64257, 110, 101>>, <<99, 97, 102, 101, 769>>}

PolicyRules == {PreferUppercaseRule, RequireDigitRule, ThrowingRule}

\* the lists of distinct custom rules, at most MaxRules long
RuleLists ==
  {rs \in UNION {[1..n -> PolicyRules] : n \in 1..MaxRules} :
     \A i, j \in DOMAIN rs : i # j => rs[i] # rs[j]}

\* per key of Partial<PolicyConfig>: <<>> when the caller leaves it out, <<v>> when it
\* is set to v; contextWords ["acme", "", "Pass"], allowedChars "a-z0-9" spelled out
ConfigChoices ==
  [minLength : {<<>>, <<4>>, <<10>>},
   maxLength : {<<>>, <<5>>},
   blocklists : {<<>>, << <<>> >>},
   contextWords : {<<>>, << <<<<97, 99, 109, 101>>, <<>>, <<80, 97, 115, 115>>>> >>},
   allowedChars : {<<>>, << <<<<97, 98, 99, 100, 101, 102, 103, 104, 105, 106, 107, 108, 109, 110, 111, 112, 113, 114, 115, 116, 117, 118, 119, 120, 121, 122, 48, 49, 50, 51, 52, 53, 54, 55, 56, 57>>>> >>},
   normalization : {<<>>, <<"NFC">>, <<"NFD">>, <<"NFKD">>},
   detectPatterns : {<<>>, <<FALSE>>},
   customRules : {<<>>} \cup {<<rs>> : rs \in RuleLists}]

\* the object literal with the chosen keys
configOf(c) == [k \in {key \in DOMAIN c : c[key] # <<>>} |-> c[k][1]]

\* undefined, { username }, { username, email, firstName, lastName }
PolicyContexts ==
  {<<>>,
   <<[username |-> <<106, 111, 104, 110, 46, 100, 111, 101>>]>>,
   <<[username |-> <<106, 100, 111, 101>>, email |-> <<106, 111, 104, 110, 46, 100, 111, 101, 64, 97, 99, 109, 101, 46, 99, 111, 109>>,
      firstName |-> <<74, 111, 104, 110>>, lastName |-> <<68, 111, 101>>]>>}

\* await validatePassword(password, config, context); the policy is
\* { ...DEFAULT_POLICY, ...config } with DEFAULT_POLICY as it is at the call
CallValidatePassword ==
  /\ pc = "idle"
  /\ \E pw \in PolicyPasswords, c \in ConfigChoices, ctx \in PolicyContexts :
       /\ password' = pw
       /\ config' = configOf(c)
       /\ context' = ctx
       /\ result' = validatePassword(pw, spread(defaultPolicy, configOf(c)), ctx)
  /\ pc' = "policy"
  /\ UNCHANGED <<generatorVars, randomVars, argon2Vars, expiryVars, strengthVars, crackVars, batchVars>>
  /\ UNCHANGED defaultsVars

\* scores and entropies in steps of half a point, half a bit: -1, -0.5, 0, ...
StrengthInputs == {k * (MicroBits \div 2) : k \in -2..(2 * MaxStrengthInput)}

\* the same number handed to each of the four classifications
CallDetermineStrength ==
  /\ pc = "idle"
  /\ \E v \in StrengthInputs :
       /\ score' = v
       /\ strengths' = [generator |-> generatorDetermineStrength(v),
                       analyzer |-> analyzerDetermineStrength(v),
                       quickCheck |-> quickCheckDetermineStrength(v),
                       passphrase |-> passphraseStrength(v)]
  /\ pc' = "strength"
  /\ UNCHANGED <<generatorVars, randomVars, argon2Vars, password, expiryVars, policyVars, crackVars, batchVars>>
  /\ UNCHANGED defaultsVars

\* entropies in steps of half a bit
CrackEntropies == {k * (MicroBits \div 2) : k \in 0..(2 * MaxEntropyBits)}

\* estimateCrackCost(entropy, hashAlgorithm)
CallEstimateCrackCost ==
  /\ pc = "idle"
  /\ \E e \in CrackEntropies, a \in HashAlgorithms :
       /\ crackEntropy' = e
       /\ crackAlgorithm' = a
       /\ crackCost' = estimateCrackCost(e, a)
  /\ pc' = "crack"
  /\ UNCHANGED <<generatorVars, randomVars, argon2Vars, password, expiryVars, policyVars, strengthVars, batchVars>>
  /\ UNCHANGED defaultsVars

\* item.options of the model: none, {}, { hasMFA: false }, { riskProfile: undefined },
\* { riskProfile: 'high', isBreached: true }
ItemOptionSets ==
  {<<>>,
   << <<>> >>,
   <<[hasMFA |-> FALSE]>>,
   <<[riskProfile |-> Undefined]>>,
   <<[riskProfile |-> "high", isBreached |-> TRUE]>>}

\* "!" 8 times and "aB3!" 5 times over
ExpiryBatchItems ==
  [password : {Cycle(<<33>>, 8), Cycle(<<97, 66, 51, 33>>, 20)},
   createdAt : {0},
   options : ItemOptionSets]

\* the arrays of at most MaxBatch elements of S
ArraysOf(S) == UNION {[1..n -> S] : n \in 0..MaxBatch}

\* sharedOptions of the model: {}, { hasMFA: true }, { riskProfile: 'low', hasMFA: true }
SharedOptionSets ==
  {<<>>, [hasMFA |-> TRUE], [riskProfile |-> "low", hasMFA |-> TRUE]}

\* await calculateExpiryBatch(items, sharedOptions), up to the loop
CallCalculateExpiryBatch ==
  /\ pc = "idle"
  /\ \E its \in ArraysOf(ExpiryBatchItems), shared \in SharedOptionSets :
       /\ items' = its
       /\ sharedOptions' = shared
  /\ results' = <<>>
  /\ cursor' = 0
  /\ pc' = "expiryBatch"
  /\ UNCHANGED <<generatorVars, randomVars, argon2Vars, password, expiryVars, policyVars, strengthVars, crackVars, passwords, contexts>>
  /\ UNCHANGED defaultsVars

\* one turn of the loop: the estimate of the next item; calculateExpiry reads the
\* clock, which has not gone back since the turn before
StepCalculateExpiryBatch ==
  /\ pc = "expiryBatch"
  /\ cursor < Len(items)
  /\ \E n \in {0, MaxNowDay * HoursPerDay}, s \in {0, 1} :
       /\ n >= now
       /\ now' = n
       /\ dstShift' = s
       /\ results' =
            Append(results,
                   calculateExpiry(items[cursor + 1].password, items[cursor + 1].createdAt,
                                   optionsOf(batchOptions(sharedOptions, items[cursor + 1])), n, s))
  /\ cursor' = cursor + 1
  /\ UNCHANGED <<generatorVars, randomVars, argon2Vars, pc, password, createdAt, options, estimate, policyVars, strengthVars, crackVars,
                 items, sharedOptions, passwords, contexts>>
  /\ UNCHANGED defaultsVars

\* return results
ReturnCalculateExpiryBatch ==
  /\ pc = "expiryBatch"
  /\ cursor = Len(items)
  /\ pc' = "expiryBatchReturned"
  /\ UNCHANGED <<generatorVars, randomVars, argon2Vars, password, expiryVars, policyVars, strengthVars, crackVars, batchVars>>
  /\ UNCHANGED defaultsVars

\* "password", "Secret99" and "Secret007"
BatchPasswords == {<<112, 97, 115, 115, 119, 111, 114, 100>>, <<83, 101, 99, 114, 101, 116, 57, 57>>, <<83, 101, 99, 114, 101, 116, 48, 48, 55>>}

\* {}, { minLength: 4 } with one or two custom rules
BatchConfigs ==
  {<<>>,
   [minLength |-> 4, customRules |-> <<RequireDigitRule>>],
   [minLength |-> 4, customRules |-> <<NoLeadingZeroRule>>],
   [minLength |-> 4, customRules |-> <<PreferUppercaseRule, NoLeadingZeroRule>>],
   [minLength |-> 4, customRules |-> <<ThrowingRule>>]}

\* contexts: undefined, or an array of { username }, which may be shorter than passwords
BatchContexts ==
  {<<>>} \cup {<<cs>> : cs \in ArraysOf({[username |-> <<115, 101, 99, 114, 101, 116>>], [username |-> <<106, 100, 111, 101>>]})}

\* await validatePasswordsBatch(passwords, config, contexts), up to the loop
CallValidatePasswordsBatch ==
  /\ pc = "idle"
  /\ \E pws \in ArraysOf(BatchPasswords), c \in BatchConfigs, cs \in BatchContexts :
       /\ passwords' = pws
       /\ config' = c
       /\ contexts' = cs
  /\ results' = <<>>
  /\ cursor' = 0
  /\ pc' = "policyBatch"
  /\ UNCHANGED <<generatorVars, randomVars, argon2Vars, password, expiryVars, context, result, strengthVars, crackVars, items, sharedOptions>>
  /\ UNCHANGED defaultsVars

\* one turn of the loop: await validatePassword for the next password; when it
\* rejects, the rejection leaves the loop and the function (there is no try)
StepValidatePasswordsBatch ==
  /\ pc = "policyBatch"
  /\ cursor < Len(passwords)
  /\ LET r == validatePassword(passwords[cursor + 1], spread(defaultPolicy, config),
                              contextAt(contexts, cursor + 1))
     IN  IF r.threw
         THEN /\ pc' = "policyBatchRejected"
              /\ UNCHANGED results
         ELSE /\ pc' = pc
              /\ results' = Append(results, r)
  /\ cursor' = cursor + 1
  /\ UNCHANGED <<generatorVars, randomVars, argon2Vars, password, expiryVars, policyVars, strengthVars, crackVars,
                 items, sharedOptions, passwords, contexts>>
  /\ UNCHANGED defaultsVars

\* return results
ReturnValidatePasswordsBatch ==
  /\ pc = "policyBatch"
  /\ cursor = Len(passwords)
  /\ pc' = "policyBatchReturned"
  /\ UNCHANGED <<generatorVars, randomVars, argon2Vars, password, expiryVars, policyVars, strengthVars, crackVars, batchVars>>
  /\ UNCHANGED defaultsVars

\* a custom charset of one character more than a byte has values: the code units
\* U+0101 and following
LongCharset == [i \in 1..(ByteRange + 1) |-> 256 + i]

\* the option sets handed to generatePassword: every class, letters only, digits
\* without the ambiguous ones, no class at all, a custom charset of lowercase
\* letters with the uppercase class selected, a custom charset of ambiguous
\* characters with excludeAmbiguous set, and the long custom charset
GeneratorLengths == {7} \cup (8..MaxGeneratedLen)

ClassOptions(upper, lower, numbers, symbols, unambiguous, custom) ==
  {[length |-> n, includeUppercase |-> upper, includeLowercase |-> lower,
    includeNumbers |-> numbers, includeSymbols |-> symbols,
    excludeAmbiguous |-> unambiguous, customCharset |-> custom] : n \in GeneratorLengths}

GeneratorOptionSets ==
  ClassOptions(TRUE, TRUE, TRUE, TRUE, FALSE, <<>>)
    \cup ClassOptions(TRUE, TRUE, FALSE, FALSE, FALSE, <<>>)
    \cup ClassOptions(FALSE, FALSE, TRUE, FALSE, TRUE, <<>>)
    \cup ClassOptions(FALSE, FALSE, FALSE, FALSE, FALSE, <<>>)
    \cup ClassOptions(TRUE, FALSE, FALSE, FALSE, FALSE, <<97, 98>>)
    \cup ClassOptions(FALSE, FALSE, FALSE, FALSE, TRUE, <<79, 48>>)
    \cup ClassOptions(FALSE, FALSE, FALSE, FALSE, FALSE, LongCharset)

\* the bytes the random source hands to the generator
RandomBytes == {0, 30, 255}

\* generatePassword(options): validateOptions throws, or the loop starts
CallGeneratePassword ==
  /\ pc = "idle"
  /\ \E o \in GeneratorOptionSets :
       /\ generatorOptions' = o
       /\ pc' = IF validateOptionsThrows(o) THEN "generateRejected" ELSE "generate"
  /\ UNCHANGED <<generatedChars, attempts, generated>>
  /\ UNCHANGED <<password, expiryVars, policyVars, strengthVars, crackVars, batchVars,
                 randomVars, argon2Vars>>
  /\ UNCHANGED defaultsVars

\* one turn of the inner loop: getRandomInt(charsetSize) and password += char; every
\* character of the charset is truthy, so the loop counter is the length so far
DrawCharacter ==
  /\ pc = "generate"
  /\ Len(generatedChars) < generatorOptions.length
  /\ \E byte \in RandomBytes :
       LET charset == buildCharset(generatorOptions)
       IN  /\ getRandomIntAccepts(byte, Len(charset))
           /\ generatedChars' = Append(generatedChars, charset[getRandomInt(byte, Len(charset)) + 1])
  /\ UNCHANGED <<pc, generatorOptions, attempts, generated>>
  /\ UNCHANGED <<password, expiryVars, policyVars, strengthVars, crackVars, batchVars,
                 randomVars, argon2Vars>>
  /\ UNCHANGED defaultsVars

\* the end of one attempt: attempts++, then the loop condition; the loop starts
\* again with an empty password, or generatePassword returns the password it has
EndAttempt ==
  /\ pc = "generate"
  /\ Len(generatedChars) = generatorOptions.length
  /\ attempts' = attempts + 1
  /\ IF ~ensureCharacterDiversity(generatedChars, generatorOptions) /\ attempts + 1 < maxAttempts
     THEN /\ generatedChars' = <<>>
          /\ UNCHANGED <<pc, generated>>
     ELSE /\ pc' = "generated"
          /\ generated' = generatedPassword(generatedChars, generatorOptions)
          /\ UNCHANGED generatedChars
  /\ UNCHANGED generatorOptions
  /\ UNCHANGED <<password, expiryVars, policyVars, strengthVars, crackVars, batchVars,
                 randomVars, argon2Vars>>
  /\ UNCHANGED defaultsVars

\* the arguments getRandomInt is called with: the sizes of the charsets, of the
\* consonants, vowels and digits of the pronounceable generator, a length, 0, and
\* the size of a custom charset of more characters than a byte has values
RandomIntMaxes == {0, 5, 10, 21, 88, 128, Len(LongCharset)}

\* getRandomInt(max): throws for max <= 0, otherwise enters the do-while loop
CallGetRandomInt ==
  /\ pc = "idle"
  /\ \E max \in RandomIntMaxes :
       /\ randomMax' = max
       /\ pc' = IF max <= 0 THEN "randomIntThrew" ELSE "randomIntLoop"
  /\ UNCHANGED <<randomSource, randomIndex>>
  /\ UNCHANGED <<password, expiryVars, policyVars, strengthVars, crackVars, batchVars,
                 generatorVars, argon2Vars>>
  /\ UNCHANGED defaultsVars

\* one turn of the do-while loop of getRandomInt: a byte of the random source; a
\* byte under the limit ends the loop and byte % max is returned
DrawRandomByte ==
  /\ pc = "randomIntLoop"
  /\ \E byte \in 0..(ByteRange - 1) :
       /\ randomSource' = <<byte>>
       /\ IF getRandomIntAccepts(byte, randomMax)
          THEN /\ pc' = "randomInt"
               /\ randomIndex' = <<getRandomInt(byte, randomMax)>>
          ELSE UNCHANGED <<pc, randomIndex>>
  /\ UNCHANGED randomMax
  /\ UNCHANGED <<password, expiryVars, policyVars, strengthVars, crackVars, batchVars,
                 generatorVars, argon2Vars>>
  /\ UNCHANGED defaultsVars

\* the arguments getRandomIndex is called with: the word list, the digits, the
\* separator sets (2, 1 and 7 characters), the coin of 'random' capitalisation,
\* and the 3 digit counts and insert positions
RandomIndexMaxes == {DicewareWordCount, 10, 7, 3, 2, 1}

\* values of the 32-bit random element: the lowest and the highest ones
Uint32Samples ==
  {<<high, low>> : high \in {0, 1, HalfRange - 1},
                   low \in {0, 1, DicewareWordCount - 1, DicewareWordCount, HalfRange - 1}}

\* getRandomIndex(max): every value of the random element is used
CallGetRandomIndex ==
  /\ pc = "idle"
  /\ \E max \in RandomIndexMaxes, source \in Uint32Samples :
       /\ randomMax' = max
       /\ randomSource' = source
       /\ randomIndex' = <<getRandomIndex(source, max)>>
  /\ pc' = "randomIndex"
  /\ UNCHANGED <<password, expiryVars, policyVars, strengthVars, crackVars, batchVars,
                 generatorVars, argon2Vars>>
  /\ UNCHANGED defaultsVars

\* passwords handed to the hash functions
HashPasswords == {<<>>, <<112, 119>>, <<99, 111, 114, 114, 101, 99, 116, 32, 104, 111, 114, 115, 101>>}

\* Partial<Argon2Options>
HashOptionSets ==
  {<<>>, [memory |-> 47104, iterations |-> 4, parallelism |-> 1, hashLength |-> 32],
   [memory |-> 1]}

\* values of the 16 random bytes of the salt
Salts == {[i \in 1..SaltLength |-> 0], [i \in 1..SaltLength |-> ByteRange - 1]}

\* encoded hashes, as argon2.hash returns them and as verifyPassword receives them
EncodedHashes ==
  {<<36, 97, 114, 103, 111, 110, 50, 105, 100, 36, 118, 61, 49, 57, 36, 109, 61, 49, 57, 52, 53, 54, 44, 116, 61, 50, 44, 112, 61, 49, 36, 65, 65, 65, 65, 65, 65, 65, 65, 65, 65, 65, 65, 65, 65, 65, 65, 65, 65, 65, 65, 65, 65, 36, 97, 71, 70, 122, 97, 65>>,
   <<110, 111, 116, 32, 97, 110, 32, 101, 110, 99, 111, 100, 101, 100, 32, 104, 97, 115, 104>>}

\* values the engine throws: instances of Error, and plain objects with a message
EngineErrors ==
  {[isError |-> e, message |-> m] :
     e \in BOOLEAN, m \in {<<77, 101, 109, 111, 114, 121, 32, 99, 111, 115, 116, 32, 105, 115, 32, 116, 111, 111, 32, 115, 109, 97, 108, 108>>, <<111, 117, 116, 32, 111, 102, 32, 109, 101, 109, 111, 114, 121>>}}

\* what argon2.hash can do
HashEngineOutcomes ==
  {Returned([hash |-> <<h>>, encoded |-> e]) : h \in {0}, e \in EncodedHashes}
    \cup {Thrown(e) : e \in EngineErrors}

\* what argon2.verify can do
VerifyEngineOutcomes == {Returned(b) : b \in BOOLEAN} \cup {Thrown(e) : e \in EngineErrors}

\* await hashPassword(password, options)
CallHashPassword ==
  /\ pc = "idle"
  /\ \E pw \in HashPasswords, o \in HashOptionSets, saltBytes \in Salts :
       /\ password' = pw
       /\ hashOptions' = o
       /\ salt' = saltBytes
       /\ \E engineDid \in HashEngineOutcomes :
            /\ engine' = [called |-> hashParameters(pw, saltBytes, o), did |-> engineDid]
            /\ outcome' = hashPassword(saltBytes, engineDid)
  /\ pc' = "hashed"
  /\ UNCHANGED encoded
  /\ UNCHANGED <<expiryVars, policyVars, strengthVars, crackVars, batchVars,
                 generatorVars, randomVars>>
  /\ UNCHANGED defaultsVars

\* await verifyPassword(password, encoded)
CallVerifyPassword ==
  /\ pc = "idle"
  /\ \E pw \in HashPasswords, e \in EncodedHashes :
       /\ password' = pw
       /\ encoded' = e
       /\ \E engineDid \in VerifyEngineOutcomes :
            /\ engine' = [called |-> [pass |-> pw, encoded |-> e], did |-> engineDid]
            /\ outcome' = verifyPassword(engineDid)
  /\ pc' = "verified"
  /\ UNCHANGED <<hashOptions, salt>>
  /\ UNCHANGED <<expiryVars, policyVars, strengthVars, crackVars, batchVars,
                 generatorVars, randomVars>>
  /\ UNCHANGED defaultsVars

\* configurations handed to createPolicy
CreatePolicyConfigs == {<<>>, [minLength |-> 12], [contextWords |-> <<<<99, 111, 114, 112>>>>]}

\* const object = getDefaultPolicy()
CallGetDefaultPolicy ==
  /\ pc = "idle"
  /\ held' = getDefaultPolicy(defaultPolicy)
  /\ pc' = "holding"
  /\ UNCHANGED <<password, expiryVars, policyVars, strengthVars, crackVars, batchVars,
                 generatorVars, randomVars, argon2Vars, defaultPolicy>>

\* const object = createPolicy(config)
CallCreatePolicy ==
  /\ pc = "idle"
  /\ \E cfg \in CreatePolicyConfigs : held' = createPolicy(defaultPolicy, cfg)
  /\ pc' = "holding"
  /\ UNCHANGED <<password, expiryVars, policyVars, strengthVars, crackVars, batchVars,
                 generatorVars, randomVars, argon2Vars, defaultPolicy>>

\* const object = getDefaultArgon2Options()
CallGetDefaultArgon2Options ==
  /\ pc = "idle"
  /\ held' = getDefaultArgon2Options
  /\ pc' = "holding"
  /\ UNCHANGED <<password, expiryVars, policyVars, strengthVars, crackVars, batchVars,
                 generatorVars, randomVars, argon2Vars, defaultPolicy>>

\* const object = getDefaultOptions()
CallGetDefaultOptions ==
  /\ pc = "idle"
  /\ held' = getDefaultOptions
  /\ pc' = "holding"
  /\ UNCHANGED <<password, expiryVars, policyVars, strengthVars, crackVars, batchVars,
                 generatorVars, randomVars, argon2Vars, defaultPolicy>>

\* the values a caller writes into a field of the object it holds
Overwrites(kind) ==
  CASE kind = "policy" -> {<<"minLength", 4>>, <<"contextWords", <<<<111, 119, 110>>>> >>, <<"blocklists", <<>> >>}
    [] kind = "argon2" -> {<<"memory", 99999>>}
    [] kind = "generator" -> {<<"length", 8>>}

\* the elements a caller pushes into an array field
Pushed(field) ==
  CASE field = "blocklists" -> "custom-list"
    [] field = "contextWords" -> <<97, 99, 109, 101>>
    [] field = "customRules" -> RequireDigitRule

\* the caller's own code: object.field = value
OverwriteField ==
  /\ pc = "holding"
  /\ \E w \in Overwrites(held.kind) :
       /\ held.value[w[1]] # w[2]
       /\ held' = overwriteField(held, w[1], w[2])
  /\ UNCHANGED <<pc, password, expiryVars, policyVars, strengthVars, crackVars, batchVars,
                 generatorVars, randomVars, argon2Vars, defaultPolicy>>

\* the caller's own code: object.field.push(element)
PushIntoField ==
  /\ pc = "holding"
  /\ held.kind = "policy"
  /\ \E field \in ArrayFields :
       /\ Len(held.value[field]) < MaxArrayLen
       /\ Len(defaultPolicy[field]) < MaxArrayLen
       /\ held' = pushIntoField(held, field, Pushed(field))
       /\ defaultPolicy' = pushReaches(defaultPolicy, held, field, Pushed(field))
  /\ UNCHANGED <<pc, password, expiryVars, policyVars, strengthVars, crackVars, batchVars,
                 generatorVars, randomVars, argon2Vars>>

\* a password without a finding under the default policy, one with "acme" in it,
\* one without a digit
DefaultsPasswords ==
  {<<99, 111, 114, 114, 101, 99, 116, 104, 111, 114, 115, 101, 98, 97, 116, 116, 101, 114, 121, 115, 116, 97, 112, 108, 101>>, <<97, 99, 109, 101, 45, 104, 111, 114, 115, 101, 45, 98, 97, 116, 116, 101, 114, 121, 45, 115, 116, 97, 112, 108, 101>>, <<84, 114, 48, 117, 98, 52, 100, 111, 114, 45, 97, 110, 100, 45, 51, 45, 109, 111, 114, 101>>}

\* await validatePassword(password) and await validatePassword(password, config)
\* after the callers above
CallValidatePasswordLater ==
  /\ pc = "idle"
  /\ \E pw \in DefaultsPasswords, cfg \in CreatePolicyConfigs :
       /\ password' = pw
       /\ config' = cfg
       /\ result' = validatePassword(pw, spread(defaultPolicy, cfg), <<>>)
  /\ context' = <<>>
  /\ pc' = "policy"
  /\ UNCHANGED <<expiryVars, strengthVars, crackVars, batchVars,
                 generatorVars, randomVars, argon2Vars, defaultsVars>>

\* the usernames of a ValidationContext: with a separator, plain, of punctuation
\* only, Cyrillic, with an accented letter, one letter, one hyphen, and the empty
\* string
Usernames ==
  {<<106, 111, 104, 110, 46, 100, 111, 101>>, <<106, 100, 111, 101>>, <<46, 95, 45>>, <<1084, 1072, 1088, 1080, 1103>>, <<106, 111, 115, 233>>, <<97>>, <<45>>, <<>>}

\* await validatePassword(password, {}, { username })
CallValidatePasswordOfUser ==
  /\ pc = "idle"
  /\ \E pw \in PolicyPasswords, u \in Usernames :
       /\ password' = pw
       /\ context' = <<[username |-> u]>>
       /\ result' = validatePassword(pw, spread(defaultPolicy, <<>>), <<[username |-> u]>>)
  /\ config' = <<>>
  /\ pc' = "policy"
  /\ UNCHANGED <<expiryVars, strengthVars, crackVars, batchVars,
                 generatorVars, randomVars, argon2Vars, defaultsVars>>

\* the caller drops the returned value
Return ==
  /\ pc \notin {"idle", "expiryBatch", "policyBatch", "generate", "randomIntLoop"}
  /\ pc' = "idle"
  /\ password' = <<>>
  /\ createdAt' = 0
  /\ now' = 0
  /\ dstShift' = 0
  /\ options' = NoOptions
  /\ estimate' = <<>>
  /\ config' = <<>>
  /\ context' = <<>>
  /\ result' = <<>>
  /\ score' = 0
  /\ strengths' = <<>>
  /\ crackEntropy' = 0
  /\ crackAlgorithm' = Undefined
  /\ crackCost' = 0
  /\ items' = <<>>
  /\ sharedOptions' = <<>>
  /\ passwords' = <<>>
  /\ contexts' = <<>>
  /\ results' = <<>>
  /\ cursor' = 0
  /\ generatorOptions' = <<>>
  /\ generatedChars' = <<>>
  /\ attempts' = 0
  /\ generated' = <<>>
  /\ randomMax' = 0
  /\ randomSource' = <<>>
  /\ randomIndex' = <<>>
  /\ hashOptions' = <<>>
  /\ salt' = <<>>
  /\ encoded' = <<>>
  /\ engine' = <<>>
  /\ outcome' = <<>>
  /\ held' = <<>>
  /\ UNCHANGED defaultPolicy

\* calls of calculateExpiry alone
NextExpiry == CallCalculateExpiry \/ Return

SpecExpiry == Init /\ [][NextExpiry]_vars

\* calls of validatePassword alone
NextPolicy == CallValidatePassword \/ Return

SpecPolicy == Init /\ [][NextPolicy]_vars


\* calls of the strength classifications alone
NextStrength == CallDetermineStrength \/ Return

SpecStrength == Init /\ [][NextStrength]_vars

\* estimateCrackCost on its own and inside calculateExpiry
NextCrackCost == CallEstimateCrackCost \/ CallCalculateExpiry \/ Return

SpecCrackCost == Init /\ [][NextCrackCost]_vars

\* the two batch functions
NextBatch ==
  \/ CallCalculateExpiryBatch
  \/ StepCalculateExpiryBatch
  \/ ReturnCalculateExpiryBatch
  \/ CallValidatePasswordsBatch
  \/ StepValidatePasswordsBatch
  \/ ReturnValidatePasswordsBatch
  \/ Return

SpecBatch == Init /\ [][NextBatch]_vars

\* generatePassword
NextGenerator == CallGeneratePassword \/ DrawCharacter \/ EndAttempt \/ Return

SpecGenerator == Init /\ [][NextGenerator]_vars

\* the two random index functions
NextRandom == CallGetRandomInt \/ DrawRandomByte \/ CallGetRandomIndex \/ Return

SpecRandom == Init /\ [][NextRandom]_vars

\* getRandomInt and its caller generatePassword with a random source that, when a
\* byte under the limit exists, does not withhold one for ever; a call in progress
\* goes on (DrawCharacter stands for the draws up to an accepted byte: a rejected
\* byte leaves generatePassword where it is)
NextRandomInt ==
  \/ CallGetRandomInt
  \/ DrawRandomByte
  \/ CallGeneratePassword
  \/ DrawCharacter
  \/ EndAttempt
  \/ Return

SpecRandomInt ==
  /\ Init
  /\ [][NextRandomInt]_vars
  /\ WF_vars(DrawRandomByte /\ pc' = "randomInt")
  /\ WF_vars(DrawCharacter)
  /\ WF_vars(EndAttempt)

\* the two hash functions
NextArgon2 == CallHashPassword \/ CallVerifyPassword \/ Return

SpecArgon2 == Init /\ [][NextArgon2]_vars

\* the default tables, their callers, and validatePassword after them
NextDefaults ==
  \/ CallGetDefaultPolicy
  \/ CallCreatePolicy
  \/ CallGetDefaultArgon2Options
  \/ CallGetDefaultOptions
  \/ OverwriteField
  \/ PushIntoField
  \/ CallValidatePasswordLater
  \/ Return

SpecDefaults == Init /\ [][NextDefaults]_vars

\* validatePassword for the users of a service
NextUsername ==
  \/ CallValidatePasswordOfUser
  \/ Return

SpecUsername == Init /\ [][NextUsername]_vars

\* every exported function of the model
Next ==
  \/ CallCalculateExpiry
  \/ CallValidatePassword
  \/ CallDetermineStrength
  \/ CallEstimateCrackCost
  \/ CallCalculateExpiryBatch
  \/ StepCalculateExpiryBatch
  \/ ReturnCalculateExpiryBatch
  \/ CallValidatePasswordsBatch
  \/ StepValidatePasswordsBatch
  \/ ReturnValidatePasswordsBatch
  \/ CallGeneratePassword
  \/ DrawCharacter
  \/ EndAttempt
  \/ CallGetRandomInt
  \/ DrawRandomByte
  \/ CallGetRandomIndex
  \/ CallHashPassword
  \/ CallVerifyPassword
  \/ CallGetDefaultPolicy
  \/ CallCreatePolicy
  \/ CallGetDefaultArgon2Options
  \/ CallGetDefaultOptions
  \/ OverwriteField
  \/ PushIntoField
  \/ CallValidatePasswordLater
  \/ CallValidatePasswordOfUser
  \/ Return

Spec == Init /\ [][Next]_vars

\* ---------------------------------------------------------------------------
\* Claims about calculateExpiry
\* ---------------------------------------------------------------------------

\* the same call with one option changed
RotationPeriodWith(o) == calculateExpiry(password, createdAt, o, now, dstShift).rotationPeriodDays

\* the similar-breach window of the current call, as the claims state it
InSimilarWindow ==
  /\ options.hasSimilarBreaches
  /\ options.daysSinceBreachFound # <<>>
  /\ options.daysSinceBreachFound[1] >= 0
  /\ options.daysSinceBreachFound[1] < 90

OnEntropyPath == pc = "expiry" /\ ~options.isBreached /\ ~InSimilarWindow

\* C1: a breached password expires at once, whatever the other options are:
\* daysRemaining = 0, rotationPeriodDays = 0, recommendRotation, expiryDate = createdAt
\* and the reason contains "immediate rotation required"; the breached branch wins
\* over the similar-breach branch and over the entropy path.
C1_BreachedExpiresAtOnce ==
  (pc = "expiry" /\ options.isBreached) =>
    /\ estimate.daysRemaining = 0
    /\ estimate.rotationPeriodDays = 0
    /\ estimate.recommendRotation = TRUE
    /\ estimate.expiryDate = createdAt
    /\ Includes(estimate.reason, <<105, 109, 109, 101, 100, 105, 97, 116, 101, 32, 114, 111, 116, 97, 116, 105, 111, 110, 32, 114, 101, 113, 117, 105, 114, 101, 100>>)

C1_Witness ==
  /\ pc = "expiry"
  /\ options.isBreached
  /\ InSimilarWindow
  /\ createdAt = 13
  /\ estimate.rotationPeriodDays = 0
  /\ estimate.expiryDate = 13

\* C2: a privileged account never gets a rotation period above 90 days, whatever
\* the password, risk profile, MFA and breach options are.
C2_PrivilegedCappedAt90 ==
  (pc = "expiry" /\ options.isPrivileged) => estimate.rotationPeriodDays <= 90

C2_Witness ==
  /\ OnEntropyPath
  /\ options.isPrivileged
  /\ options.hasMFA
  /\ options.riskProfile = "low"
  /\ estimate.entropy >= 100 * MicroBits
  /\ estimate.rotationPeriodDays = 90

\* C3: without isBreached, the accelerated branch (30-day period, rotation
\* recommended exactly when at most 7 days remain) is taken exactly when
\* hasSimilarBreaches holds and 0 <= daysSinceBreachFound < 90; otherwise the result
\* is that of the same call with hasSimilarBreaches = false.
C3_SimilarBreachWindow ==
  (pc = "expiry" /\ ~options.isBreached) =>
    /\ (estimate.reason = REASON_SIMILAR) <=> InSimilarWindow
    /\ InSimilarWindow =>
         /\ estimate.rotationPeriodDays = 30
         /\ estimate.recommendRotation <=> (estimate.daysRemaining <= 7)
    /\ ~InSimilarWindow =>
         estimate = calculateExpiry(password, createdAt,
                                    [options EXCEPT !.hasSimilarBreaches = FALSE], now, dstShift)

C3_Witness ==
  /\ pc = "expiry"
  /\ ~options.isBreached
  /\ options.hasSimilarBreaches
  /\ options.daysSinceBreachFound = <<89>>
  /\ options.hasMFA
  /\ estimate.entropy >= 100 * MicroBits
  /\ estimate.rotationPeriodDays = 30
  /\ estimate.daysRemaining = 7
  /\ estimate.recommendRotation

\* C4: with default options (medium risk, no MFA, not privileged, no breach signal)
\* the rotation period is 30 below 40 bits, 90 below 60, 180 below 80, 365 below 100
\* and 730 from 100 bits on; the sentinel -1 is never returned.
C4_BasePeriodByBand ==
  (/\ pc = "expiry"
   /\ options.riskProfile \in {Undefined, "medium"}
   /\ ~options.hasMFA /\ ~options.isPrivileged
   /\ ~options.isBreached /\ ~options.hasSimilarBreaches) =>
    estimate.rotationPeriodDays =
      (IF estimate.entropy < 40 * MicroBits THEN 30
       ELSE IF estimate.entropy < 60 * MicroBits THEN 90
       ELSE IF estimate.entropy < 80 * MicroBits THEN 180
       ELSE IF estimate.entropy < 100 * MicroBits THEN 365
       ELSE 730)

C4_Witness ==
  /\ pc = "expiry"
  /\ options = NoOptions
  /\ estimate.entropy = 100 * MicroBits
  /\ estimate.rotationPeriodDays = 730

\* C5 as stated: without isPrivileged, the call with hasMFA = true returns exactly
\* twice the rotationPeriodDays of the same call with hasMFA = false.
C5_MfaDoublesExactly ==
  (pc = "expiry" /\ ~options.isPrivileged /\ options.hasMFA) =>
    estimate.rotationPeriodDays = 2 * RotationPeriodWith([options EXCEPT !.hasMFA = FALSE])

\* C5 amended: without isPrivileged and on the entropy path, the call with
\* hasMFA = true returns twice the period of the call with hasMFA = false, except
\* for the strong band (80 <= entropy < 100) at high risk, where the period without
\* MFA is 182.5 rounded to 183 and the period with MFA is 365; in the breached
\* branch both periods are 0 and in the similar-breach branch both are 30.
C5_MfaDoublesUnlessRounded ==
  (pc = "expiry" /\ ~options.isPrivileged /\ options.hasMFA) =>
    LET without == RotationPeriodWith([options EXCEPT !.hasMFA = FALSE])
    IN  IF options.isBreached
        THEN estimate.rotationPeriodDays = 0 /\ without = 0
        ELSE IF InSimilarWindow
        THEN estimate.rotationPeriodDays = 30 /\ without = 30
        ELSE IF /\ options.riskProfile = "high"
                /\ estimate.entropy >= 80 * MicroBits
                /\ estimate.entropy < 100 * MicroBits
        THEN estimate.rotationPeriodDays = 365 /\ without = 183
        ELSE estimate.rotationPeriodDays = 2 * without

C5_Witness ==
  /\ OnEntropyPath
  /\ ~options.isPrivileged
  /\ options.hasMFA
  /\ options.riskProfile = "low"
  /\ estimate.entropy >= 80 * MicroBits
  /\ estimate.entropy < 100 * MicroBits
  /\ estimate.rotationPeriodDays = 1460

Validated == pc = "policy" /\ ~result.threw

\* the positions of the violations of one severity, or on one field
WithSeverity(severity) == {i \in DOMAIN result.violations : result.violations[i].severity = severity}

OnField(field) == {i \in DOMAIN result.violations : result.violations[i].field = field}

\* the current configuration with detectPatterns set to b
WithDetectPatterns(b) ==
  [k \in DOMAIN config \cup {"detectPatterns"} |-> IF k = "detectPatterns" THEN b ELSE config[k]]

\* C7: the result is valid exactly when no violation has severity error; warnings
\* never make it invalid.
C7_ValidIffNoError ==
  Validated => (result.valid <=> WithSeverity("error") = {})

C7_Witness ==
  /\ Validated
  /\ result.valid
  /\ OnField("pattern") # {}
  /\ \E i \in OnField("custom") : result.violations[i].severity = "warning"

\* C8: score = max(0, 100 - 20 * errors - 10 * warnings), so 0 <= score <= 100, and
\* score = 100 exactly when there is no violation.
C8_ScoreFormula ==
  Validated =>
    /\ result.score =
         Max(0, 100 - 20 * Cardinality(WithSeverity("error"))
                    - 10 * Cardinality(WithSeverity("warning")))
    /\ result.score >= 0
    /\ result.score <= 100
    /\ (result.score = 100) <=> (result.violations = <<>>)

C8_Witness ==
  /\ Validated
  /\ 20 * Cardinality(WithSeverity("error")) + 10 * Cardinality(WithSeverity("warning")) > 100
  /\ result.score = 0

\* C9: every violation on field pattern is a warning, and valid is the same with
\* detectPatterns on as with detectPatterns off.
C9_PatternsNeverBlock ==
  Validated =>
    /\ \A i \in OnField("pattern") : result.violations[i].severity = "warning"
    /\ LET other == validatePassword(password, WithDetectPatterns(~mergePolicy(config).detectPatterns), context)
       IN  ~other.threw /\ other.valid = result.valid

C9_Witness ==
  /\ Validated
  /\ mergePolicy(config).detectPatterns
  /\ Cardinality(OnField("pattern")) >= 2
  /\ result.valid
  /\ validatePassword(password, WithDetectPatterns(FALSE), context).violations = <<>>

\* C10 as stated: for every configuration, a normalized password shorter than
\* minLength gets exactly one violation on field length, an error, and is invalid.
C10_ShortGivesOneLengthError ==
  (Validated /\ Len(result.normalized) < mergePolicy(config).minLength) =>
    /\ Cardinality(OnField("length")) = 1
    /\ \A i \in OnField("length") : result.violations[i].severity = "error"
    /\ ~result.valid

\* C10 amended: a normalized password shorter than minLength is invalid and its
\* violations on field length are errors; there is exactly one of them unless the
\* password is also longer than maxLength (a configuration with maxLength below
\* minLength - 1), and then there are exactly two.
C10_ShortGivesOneLengthErrorPerBound ==
  (Validated /\ Len(result.normalized) < mergePolicy(config).minLength) =>
    /\ Cardinality(OnField("length")) =
         (IF Len(result.normalized) > mergePolicy(config).maxLength THEN 2 ELSE 1)
    /\ \A i \in OnField("length") : result.violations[i].severity = "error"
    /\ ~result.valid

C10_Witness ==
  /\ Validated
  /\ Len(result.normalized) < mergePolicy(config).minLength
  /\ Len(result.normalized) <= mergePolicy(config).maxLength
  /\ Len(password) # Len(result.normalized)
  /\ Cardinality(OnField("length")) = 1
  /\ Cardinality(OnField("blocklist")) = 0


\* the positions of the error violations on one field
ErrorsOnField(r, field) ==
  {i \in DOMAIN r.violations : r.violations[i].field = field /\ r.violations[i].severity = "error"}

\* a password with its letters a-z and U+00E9 in upper case
UpperCased(pw) ==
  [i \in 1..Len(pw) |-> IF pw[i] \in (97..122) \cup {233} THEN pw[i] - 32 ELSE pw[i]]

\* upper/lower-case variants of the current password: all upper, and all lower
\* but for the first character
CaseVariants ==
  {UpperCased(password),
   [i \in 1..Len(password) |->
      IF i = 1 THEN UpperCased(password)[i] ELSE toLowerCase(password)[i]]}

\* s contains t, and more than t
ProperlyContains(s, t) == Includes(s, t) /\ Len(t) < Len(s)

\* C11: an error on field blocklist is present exactly when the merged blocklists
\* is non-empty and the lower-cased normalized password is a member of the common
\* password set; every upper/lower-case variant of the password has the same
\* outcome; a password that is not a member but contains a member as a proper
\* substring gets no violation on field blocklist.
C11_BlocklistExactMatch ==
  Validated =>
    /\ (ErrorsOnField(result, "blocklist") # {}) <=>
         /\ Len(mergePolicy(config).blocklists) > 0
         /\ toLowerCase(result.normalized) \in COMMON_PASSWORDS
    /\ \A v \in CaseVariants :
         (ErrorsOnField(validatePassword(v, config, context), "blocklist") # {})
           <=> (ErrorsOnField(result, "blocklist") # {})
    /\ ( /\ toLowerCase(result.normalized) \notin COMMON_PASSWORDS
         /\ \E c \in COMMON_PASSWORDS : ProperlyContains(toLowerCase(result.normalized), c) )
       => OnField("blocklist") = {}

\* "Admin" is blocked with the default blocklists, and so is "ADMIN"
C11_Witness ==
  /\ Validated
  /\ password # toLowerCase(password)
  /\ password # UpperCased(password)
  /\ Cardinality(ErrorsOnField(result, "blocklist")) = 1
  /\ ErrorsOnField(validatePassword(UpperCased(password), config, context), "blocklist") # {}

\* the sources of the current call that occur in the lower-cased normalized
\* password, in the order of the report: context words as configured, then the
\* labels of username (as given, or without its non-alphanumeric characters),
\* email local part, first name and last name
MatchedSources ==
  LET lower == toLowerCase(result.normalized)
      occurs(text) == Includes(lower, toLowerCase(text))
      given(field) == context # <<>> /\ field \in DOMAIN context[1] /\ context[1][field] # <<>>
      words == mergePolicy(config).contextWords
      label(hit, text) == IF hit THEN <<text>> ELSE <<>>
  IN  SelectSeq(words, LAMBDA w : w # <<>> /\ occurs(w))
      \o label(given("username")
                 /\ (occurs(context[1].username)
                     \/ occurs(alphanumericOf(toLowerCase(context[1].username)))),
               <<117, 115, 101, 114, 110, 97, 109, 101>>)
      \o label(given("email")
                 /\ localPartOf(context[1].email) # <<>>
                 /\ occurs(localPartOf(context[1].email)),
               <<101, 109, 97, 105, 108>>)
      \o label(given("firstName") /\ occurs(context[1].firstName), <<102, 105, 114, 115, 116, 32, 110, 97, 109, 101>>)
      \o label(given("lastName") /\ occurs(context[1].lastName), <<108, 97, 115, 116, 32, 110, 97, 109, 101>>)

BandOf(v) ==
  CASE v < 40 * MicroBits -> "weak"
    [] v >= 40 * MicroBits /\ v < 60 * MicroBits -> "medium"
    [] v >= 60 * MicroBits /\ v < 80 * MicroBits -> "strong"
    [] v >= 80 * MicroBits -> "very-strong"

\* C15: the classification of the generator, of analyzePasswordStrength, of
\* quickStrengthCheck and of generatePassphrase give the same band for the same
\* number: weak below 40, medium from 40, strong from 60, very-strong from 80.
C15_SameBandsEverywhere ==
  (pc = "strength") =>
    /\ strengths.generator = BandOf(score)
    /\ strengths.analyzer = BandOf(score)
    /\ strengths.quickCheck = BandOf(score)
    /\ strengths.passphrase = BandOf(score)

\* on the breakpoint 40 and just below 80
C15_Witness ==
  /\ pc = "strength"
  /\ \/ score = 40 * MicroBits /\ strengths.generator = "medium" /\ strengths.quickCheck = "medium"
     \/ score = 80 * MicroBits - MicroBits \div 2 /\ strengths.analyzer = "strong"
                                              /\ strengths.passphrase = "strong"

\* ---------------------------------------------------------------------------
\* Claims about estimateCrackCost
\* ---------------------------------------------------------------------------

\* the cap of 1e15 USD, as a logarithm
CostCap == 15 * Log2MicroCost(10)

\* the algorithms from the least to the most resistant
ByResistance == <<"md5", "sha1", "sha256", "pbkdf2", "bcrypt", "scrypt", "argon2id">>

\* the cost calculateExpiry attaches for the current password under algorithm a
AttachedCost(a) ==
  calculateExpiry(password, createdAt, [options EXCEPT !.hashAlgorithm = a], now, dstShift).estimatedCrackCost

\* C16 as stated: for every algorithm the cost of a lower entropy is strictly
\* below the cost of a higher one, and no cost is above 1e15.
C16_StrictlyIncreasingInEntropy ==
  (pc = "crack") =>
    /\ crackCost <= CostCap
    /\ \A e \in CrackEntropies :
         e < crackEntropy => estimateCrackCost(e, crackAlgorithm) < crackCost

\* C16 amended: no cost is above 1e15; the cost of a lower entropy is never above
\* the cost of a higher one, and it is strictly below unless it is 1e15 itself.
C16_IncreasingUpToTheCap ==
  (pc = "crack") =>
    /\ crackCost <= CostCap
    /\ \A e \in CrackEntropies :
         e < crackEntropy =>
           /\ estimateCrackCost(e, crackAlgorithm) <= crackCost
           /\ \/ estimateCrackCost(e, crackAlgorithm) < crackCost
              \/ estimateCrackCost(e, crackAlgorithm) = CostCap

\* 90 bits under argon2id: at the cap, as 86 bits is, and above 85.5 bits
C16_Witness ==
  /\ pc = "crack"
  /\ crackAlgorithm = "argon2id"
  /\ crackEntropy = 90 * MicroBits
  /\ crackCost = CostCap
  /\ estimateCrackCost(86 * MicroBits, crackAlgorithm) = crackCost
  /\ estimateCrackCost(86 * MicroBits - MicroBits \div 2, crackAlgorithm) < crackCost

\* C17 as stated: at every entropy the cost strictly increases along md5, sha1,
\* sha256, pbkdf2, bcrypt, scrypt, argon2id, and so does the estimatedCrackCost
\* that calculateExpiry attaches for one password.
C17_StrictlyIncreasingInResistance ==
  /\ (pc = "crack") =>
       \A i \in 1..(Len(ByResistance) - 1) :
         estimateCrackCost(crackEntropy, ByResistance[i])
           < estimateCrackCost(crackEntropy, ByResistance[i + 1])
  /\ (pc = "expiry") =>
       \A i \in 1..(Len(ByResistance) - 1) :
         AttachedCost(ByResistance[i]) < AttachedCost(ByResistance[i + 1])

\* C17 amended: along that order the cost never decreases, and it strictly
\* increases from one algorithm to the next unless it is 1e15 already; the same for
\* the estimatedCrackCost of calculateExpiry, which is the cost of the call's
\* algorithm (argon2id when none is given).
C17_IncreasingInResistanceUpToTheCap ==
  /\ (pc = "crack") =>
       LET costs == [a \in HashAlgorithms |-> estimateCrackCost(crackEntropy, a)]
       IN  /\ crackCost = costs[crackAlgorithm]
           /\ \A i \in 1..(Len(ByResistance) - 1) :
                LET weaker == costs[ByResistance[i]]
                    stronger == costs[ByResistance[i + 1]]
                IN  weaker <= stronger /\ (weaker < stronger \/ weaker = CostCap)
  /\ (pc = "expiry") =>
       LET attached == [a \in HashAlgorithms |-> AttachedCost(a)]
       IN  /\ estimate.estimatedCrackCost =
                attached[IF options.hashAlgorithm = Undefined THEN "argon2id"
                         ELSE options.hashAlgorithm]
           /\ \A i \in 1..(Len(ByResistance) - 1) :
                LET weaker == attached[ByResistance[i]]
                    stronger == attached[ByResistance[i + 1]]
                IN  weaker <= stronger /\ (weaker < stronger \/ weaker = CostCap)

\* a password whose cost is at the cap under argon2id and scrypt and below it under md5
C17_Witness ==
  /\ pc = "expiry"
  /\ options.hashAlgorithm = "md5"
  /\ estimate.estimatedCrackCost < CostCap
  /\ AttachedCost("scrypt") = CostCap
  /\ AttachedCost("argon2id") = CostCap
  /\ AttachedCost("sha1") > estimate.estimatedCrackCost

\* ---------------------------------------------------------------------------
\* Claims about the batch functions
\* ---------------------------------------------------------------------------

\* validatePassword rejects for the i-th password of the batch
ItemThrows(i) == validatePassword(passwords[i], config, contextAt(contexts, i)).threw

\* validatePasswordsBatch has settled: it has returned or it has rejected
PolicyBatchSettled == pc \in {"policyBatchReturned", "policyBatchRejected"}

\* C13: when a custom rule throws while item i is processed, the items after i are
\* still processed and the batch still returns a result for them: once the batch
\* has settled, every item after one that threw has been taken, and when its own
\* rules do not throw the batch has returned and holds its result.
C13_ThrowDoesNotAbortTheBatch ==
  PolicyBatchSettled =>
    \A i, j \in DOMAIN passwords :
      (i < j /\ ItemThrows(i)) =>
        /\ cursor >= j
        /\ ~ItemThrows(j) =>
             /\ pc = "policyBatchReturned"
             /\ \E k \in DOMAIN results :
                  results[k] = validatePassword(passwords[j], config, contextAt(contexts, j))

\* the options calculateExpiry is to get for the i-th item: of every key, the
\* item's value when the item sets it, else the shared value, else none
MergedOptions(i) ==
  LET own == IF items[i].options = <<>> THEN <<>> ELSE items[i].options[1]
      value(k, none) ==
        IF k \in DOMAIN own THEN own[k]
        ELSE IF k \in DOMAIN sharedOptions THEN sharedOptions[k]
        ELSE none
  IN  [riskProfile |-> value("riskProfile", Undefined),
       hasMFA |-> value("hasMFA", FALSE),
       isPrivileged |-> value("isPrivileged", FALSE),
       hashAlgorithm |-> value("hashAlgorithm", Undefined),
       daysSinceBreachFound |-> value("daysSinceBreachFound", <<>>),
       isBreached |-> value("isBreached", FALSE),
       hasSimilarBreaches |-> value("hasSimilarBreaches", FALSE)]

\* each turn of calculateExpiryBatch appends, after the results so far, what
\* calculateExpiry gives for the next item at the clock it reads
ExpiryBatchTurn ==
  (pc = "expiryBatch" /\ cursor' = cursor + 1) =>
    results' = results \o
      <<calculateExpiry(items[cursor'].password, items[cursor'].createdAt,
                        MergedOptions(cursor'), now', dstShift')>>

\* the results so far are those of the items taken so far, one each and in order;
\* a returned batch has taken every item, and validatePasswordsBatch rejects only
\* at an item for which validatePassword rejects
BatchResultsInOrder ==
  /\ (pc \in {"expiryBatch", "expiryBatchReturned"}) => Len(results) = cursor
  /\ (pc = "expiryBatchReturned") => Len(results) = Len(items)
  /\ (pc \in {"policyBatch", "policyBatchReturned"}) =>
       /\ Len(results) = cursor
       /\ \A i \in 1..Len(results) :
            results[i] = validatePassword(passwords[i], config, contextAt(contexts, i))
  /\ (pc = "policyBatchReturned") => Len(results) = Len(passwords)
  /\ (pc = "policyBatchRejected") =>
       /\ ItemThrows(cursor)
       /\ \A i \in 1..(cursor - 1) : ~ItemThrows(i)

\* C14: a batch that returns gives one result for each item, in the order of the
\* items; result i of calculateExpiryBatch is calculateExpiry of item i under the
\* shared options overridden by every key the item sets, and result i of
\* validatePasswordsBatch is validatePassword(passwords[i], config, contexts[i]).
C14_BatchIsElementwise == [][ExpiryBatchTurn]_vars /\ []BatchResultsInOrder

\* the shared options turn MFA on, the second item turns it off again, and the
\* first item has no options: twice the period for the same password
C14_Witness ==
  /\ pc = "expiryBatchReturned"
  /\ Len(results) = 2
  /\ "hasMFA" \in DOMAIN sharedOptions
  /\ sharedOptions.hasMFA
  /\ items[1].options = <<>>
  /\ items[2].options = <<[hasMFA |-> FALSE]>>
  /\ items[1].password = items[2].password
  /\ results[1].rotationPeriodDays = 2 * results[2].rotationPeriodDays

\* ---------------------------------------------------------------------------
\* C18
\* ---------------------------------------------------------------------------

\* the classes the options select
SelectedClasses(o) ==
  {c \in {"uppercase", "lowercase", "numbers", "symbols"} :
     \/ c = "uppercase" /\ o.includeUppercase
     \/ c = "lowercase" /\ o.includeLowercase
     \/ c = "numbers" /\ o.includeNumbers
     \/ c = "symbols" /\ o.includeSymbols}

\* the password has a character of the class
HasClass(pw, c) ==
  CASE c = "uppercase" -> \E i \in DOMAIN pw : pw[i] \in CharsOf(UPPERCASE)
    [] c = "lowercase" -> \E i \in DOMAIN pw : pw[i] \in CharsOf(LOWERCASE)
    [] c = "numbers" -> \E i \in DOMAIN pw : pw[i] \in CharsOf(NUMBERS)
    [] c = "symbols" -> \E i \in DOMAIN pw : pw[i] \in CharsOf(SYMBOLS)

\* C18: whatever the random source does, the password generatePassword returns
\* has exactly options.length characters and, when the length is at least the
\* number of selected classes, a character of every selected class.
C18_LengthAndDiversity ==
  pc = "generated" =>
    /\ Len(generated.password) = generatorOptions.length
    /\ generatorOptions.length >= Cardinality(SelectedClasses(generatorOptions)) =>
         \A c \in SelectedClasses(generatorOptions) : HasClass(generated.password, c)

\* ---------------------------------------------------------------------------
\* C19
\* ---------------------------------------------------------------------------

\* the bytes for which getRandomInt(max) returns v
BytesProducing(v, max) ==
  {byte \in 0..(ByteRange - 1) : getRandomIntAccepts(byte, max) /\ getRandomInt(byte, max) = v}

\* 2^32 % max
Uint32Remainder(max) == ((HalfRange % max) * (HalfRange % max)) % max

\* The 32-bit elements from floor(2^32 / max) * max up. The elements below are
\* floor(2^32 / max) runs of max consecutive numbers and each run gives every
\* value of [0, max) once, so two values are given by the same number of elements
\* exactly when they are given by the same number of these last ones.
LastElements(max) ==
  {<<HalfRange - 1, low>> : low \in (HalfRange - Uint32Remainder(max))..(HalfRange - 1)}

\* the last elements for which getRandomIndex(max) returns v
LastElementsProducing(v, max) == {source \in LastElements(max) : getRandomIndex(source, max) = v}

\* C19: no random index has a modulo bias: every value of [0, max) is returned by
\* getRandomInt(max) for the same number of accepted bytes, and by
\* getRandomIndex(max) for the same number of 32-bit elements.
C19_NoModuloBias ==
  /\ pc = "randomInt" =>
       LET count == [v \in 0..(randomMax - 1) |-> Cardinality(BytesProducing(v, randomMax))]
       IN  \A v \in 0..(randomMax - 1) : count[v] = count[0]
  /\ pc = "randomIndex" =>
       LET count == [v \in 0..(randomMax - 1) |-> Cardinality(LastElementsProducing(v, randomMax))]
       IN  \A v \in 0..(randomMax - 1) : count[v] = count[0]

\* ---------------------------------------------------------------------------
\* C20
\* ---------------------------------------------------------------------------

\* the string ends with the other one
EndsWith(s, t) == Len(t) <= Len(s) /\ SubSeq(s, Len(s) - Len(t) + 1, Len(s)) = t

\* C20: verifyPassword never throws: it returns the engine's boolean when the
\* engine answers and false when the engine throws; hashPassword returns nothing
\* when the engine throws, but throws an error whose message carries the message
\* of what the engine threw.
C20_ErrorPolicy ==
  /\ pc = "verified" =>
       /\ ~outcome.threw
       /\ outcome.value = (IF engine.did.threw THEN FALSE ELSE engine.did.value)
  /\ (pc = "hashed" /\ engine.did.threw) =>
       /\ outcome.threw
       /\ outcome.value.isError
       /\ EndsWith(outcome.value.message, engine.did.value.message)

\* ---------------------------------------------------------------------------
\* C21
\* ---------------------------------------------------------------------------

\* the flag of the options changed the rotation period: the same call with the
\* flag off gives another rotationPeriodDays
MfaHadEffect == options.hasMFA /\ RotationPeriodWith([options EXCEPT !.hasMFA = FALSE]) # estimate.rotationPeriodDays

PrivilegedHadEffect ==
  options.isPrivileged /\ RotationPeriodWith([options EXCEPT !.isPrivileged = FALSE]) # estimate.rotationPeriodDays

HighRiskHadEffect ==
  options.riskProfile = "high" /\ RotationPeriodWith([options EXCEPT !.riskProfile = Undefined]) # estimate.rotationPeriodDays

\* C21: on the entropy path the reason has the MFA clause, the privileged clause
\* and the high-risk clause each exactly when the flag changed rotationPeriodDays.
C21_ClauseIffEffect ==
  OnEntropyPath =>
    /\ Includes(estimate.reason, <<77, 70, 65, 32, 112, 114, 111, 116, 101, 99, 116, 105, 111, 110>>) <=> MfaHadEffect
    /\ (Includes(estimate.reason, <<112, 114, 105, 118, 105, 108, 101, 103, 101, 100, 32, 97, 99, 99, 101, 115, 115>>) /\ Includes(estimate.reason, <<57, 48, 45, 100, 97, 121, 32, 109, 97, 120, 105, 109, 117, 109>>))
         <=> PrivilegedHadEffect
    /\ Includes(estimate.reason, <<104, 105, 103, 104, 45, 114, 105, 115, 107, 32, 97, 99, 99, 111, 117, 110, 116>>) <=> HighRiskHadEffect

\* ---------------------------------------------------------------------------
\* C22
\* ---------------------------------------------------------------------------

\* clamp(v, low, high)
Clamp(v, low, high) == IF v < low THEN low ELSE IF v > high THEN high ELSE v

WholeDaysLeft == (createdAt + estimate.rotationPeriodDays * HoursPerDay - now) \div HoursPerDay

\* C23: on the entropy path daysRemaining is max(0, floor((createdAt +
\* rotationPeriodDays - now) / 1 day)): it is never negative, it is 0 for every
\* password older than its rotation period, and recommendRotation is true exactly
\* when daysRemaining <= 30.
C23_DaysRemaining ==
  OnEntropyPath =>
    /\ estimate.daysRemaining = Max(0, WholeDaysLeft)
    /\ estimate.daysRemaining >= 0
    /\ now - createdAt > estimate.rotationPeriodDays * HoursPerDay => estimate.daysRemaining = 0
    /\ estimate.recommendRotation <=> estimate.daysRemaining <= 30

\* ---------------------------------------------------------------------------
\* C24
\* ---------------------------------------------------------------------------

\* C24: whatever the callers did to the objects they were given, getDefaultPolicy()
\* still returns the policy of the source text, and a validatePassword call
\* returns what it returns under that policy.
C24_DefaultsNeverChange ==
  /\ getDefaultPolicy(defaultPolicy).value = DEFAULT_POLICY
  /\ pc = "policy" => result = validatePassword(password, config, context)

shouldRotateNow(e) == e.daysRemaining = 0 \/ e.recommendRotation

\* C25: a password created at this very moment and evaluated with default options
\* (no breach signal) is never flagged by shouldRotateNow, whatever the password is.
C25_FreshNeverFlagged ==
  (pc = "expiry" /\ options = NoOptions /\ createdAt = now) => ~shouldRotateNow(estimate)

\* C26: when generatePassword accepts options with excludeAmbiguous set, the
\* password it returns contains none of the ambiguous characters 0, O, l, 1, I.
C26_NoAmbiguousCharacters ==
  (pc = "generated" /\ generatorOptions.excludeAmbiguous) =>
    CharsOf(generated.password) \cap CharsOf(AMBIGUOUS_CHARS) = {}

\* /[!-\/:-@\[-`{-~ ]/: a character of the ASCII range that is neither a letter nor a digit
HasAsciiSymbol(s) ==
  \E i \in DOMAIN s : s[i] <= 127 /\ s[i] \notin (48..57) \cup (65..90) \cup (97..122)

\* C27: the charset size behind the entropy of an estimate is 26 for a lowercase
\* letter, 26 for an uppercase letter, 10 for a digit, 32 for an ASCII symbol and
\* 1000 for a code point above 0x7F, each counted when present; a password of
\* non-ASCII characters only has charset size 1000; the entropy is the length times
\* the logarithm of the charset size.
C27_CharsetSize ==
  pc = "expiry" =>
    /\ charsetSizeOf(password) =
         (IF HasLowercase(password) THEN 26 ELSE 0)
         + (IF HasUppercase(password) THEN 26 ELSE 0)
         + (IF HasDigit(password) THEN 10 ELSE 0)
         + (IF HasAsciiSymbol(password) THEN 32 ELSE 0)
         + (IF HasUnicode(password) THEN 1000 ELSE 0)
    /\ (password # <<>> /\ \A i \in DOMAIN password : password[i] > 127) =>
         charsetSizeOf(password) = 1000
    /\ estimate.entropy =
         (IF password = <<>> THEN 0 ELSE Len(password) * Log2Micro(charsetSizeOf(password)))

\* the place in the pipeline of the check that pushed a violation
StageOf(v) ==
  CASE v.field = "length" -> (IF EndsWith(v.message, <<32, 99, 104, 97, 114, 97, 99, 116, 101, 114, 115, 32, 108, 111, 110, 103>>) THEN 1 ELSE 2)
    [] v.field = "characters" -> 3
    [] v.field = "blocklist" -> 4
    [] v.field = "pattern" ->
         (CASE v.message = <<80, 97, 115, 115, 119, 111, 114, 100, 32, 99, 111, 110, 116, 97, 105, 110, 115, 32, 99, 111, 109, 109, 111, 110, 32, 107, 101, 121, 98, 111, 97, 114, 100, 32, 112, 97, 116, 116, 101, 114, 110>> -> 5
            [] v.message = <<80, 97, 115, 115, 119, 111, 114, 100, 32, 99, 111, 110, 116, 97, 105, 110, 115, 32, 114, 101, 112, 101, 116, 105, 116, 105, 118, 101, 32, 112, 97, 116, 116, 101, 114, 110>> -> 6
            [] v.message = <<80, 97, 115, 115, 119, 111, 114, 100, 32, 99, 111, 110, 116, 97, 105, 110, 115, 32, 115, 101, 113, 117, 101, 110, 116, 105, 97, 108, 32, 112, 97, 116, 116, 101, 114, 110>> -> 7
            [] OTHER -> 8)
    [] v.field = "context" -> 9
    [] v.field = "custom" -> 10

\* the stages whose check, taken alone, fails for the normalized password
FailingStages(normalized, policy, ctx) ==
  {s \in 1..10 :
     CASE s = 1 -> Len(normalized) < policy.minLength
       [] s = 2 -> Len(normalized) > policy.maxLength
       [] s = 3 -> policy.allowedChars # <<>> /\ ~checkAllowedCharacters(normalized, policy.allowedChars)
       [] s = 4 -> Len(policy.blocklists) > 0 /\ checkCommonPassword(normalized)
       [] s = 5 -> policy.detectPatterns /\ checkKeyboardPatterns(normalized) # <<>>
       [] s = 6 -> policy.detectPatterns /\ checkRepetitivePatterns(normalized) # <<>>
       [] s = 7 -> policy.detectPatterns /\ checkSequentialPatterns(normalized) # <<>>
       [] s = 8 -> policy.detectPatterns /\ checkDatePatterns(normalized) # <<>>
       [] s = 9 -> (Len(policy.contextWords) > 0 \/ ctx # <<>>)
                   /\ checkContextWords(normalized, policy.contextWords, ctx) # <<>>
       [] s = 10 -> \E i \in DOMAIN policy.customRules :
                      ~ruleAccepts(policy.customRules[i], normalized, ctx)}

\* C28: a result of validatePassword holds one violation for every check that
\* fails, whatever the earlier checks found, in the order minimum length, maximum
\* length, characters, blocklist, keyboard, repetitive, sequential and date
\* pattern, context, custom rules; the custom violations follow the configured
\* order of the rules, and a length violation, when there is one, comes first.
C28_PipelineOrder ==
  (pc = "policy" /\ ~result.threw) =>
    LET v == result.violations
        policy == mergePolicy(config)
        failing == SelectSeq(policy.customRules,
                             LAMBDA rule : ~ruleAccepts(rule, result.normalized, context))
        custom == SelectSeq(v, LAMBDA x : x.field = "custom")
    IN  /\ \A i, j \in DOMAIN v :
             i < j => \/ StageOf(v[i]) < StageOf(v[j])
                      \/ v[i].field = "custom" /\ v[j].field = "custom"
        /\ {StageOf(v[i]) : i \in DOMAIN v} = FailingStages(result.normalized, policy, context)
        /\ [i \in DOMAIN custom |-> custom[i].message] = [i \in DOMAIN failing |-> failing[i].message]
        /\ (\E i \in DOMAIN v : v[i].field = "length") => v[1].field = "length"

C28_Witness ==
  /\ pc = "policy"
  /\ ~result.threw
  /\ Len(result.violations) >= 4
  /\ result.violations[1].field = "length"
  /\ \E i, j, k \in DOMAIN result.violations :
       /\ i < j /\ j < k
       /\ result.violations[i].field = "blocklist"
       /\ result.violations[j].field = "context"
       /\ result.violations[k].field = "custom"

\* the violation names the username among what it found
CitesUsername(v) == v.field = "context" /\ v.details # <<>> /\ Includes(v.details[1], <<117, 115, 101, 114, 110, 97, 109, 101>>)

\* C29: a context violation names 'username' only when the password contains,
\* without regard to case, the username or what is left of the username once its
\* non-alphanumeric characters are removed, whatever the username is made of.
C29_UsernameOnlyWhenContained ==
  (pc = "policy" /\ ~result.threw /\ context # <<>>) =>
    LET lower == toLowerCase(result.normalized)
        usernameLower == toLowerCase(context[1].username)
        usernameAlphanumeric == alphanumericOf(usernameLower)
    IN  (\E i \in DOMAIN result.violations : CitesUsername(result.violations[i])) =>
          \/ usernameLower # <<>> /\ Includes(lower, usernameLower)
          \/ usernameAlphanumeric # <<>> /\ Includes(lower, usernameAlphanumeric)

\* C30: a call of getRandomInt(max) with max > 0 returns, and what it returns is
\* in [0, max); a call of generatePassword that validateOptions accepts returns,
\* after at most 100 attempts of the diversity loop.
C30_Terminates ==
  /\ (pc = "randomIntLoop") ~> (pc = "randomInt" /\ randomIndex[1] \in 0..(randomMax - 1))
  /\ (pc = "generate") ~> (pc = "generated")
  /\ [](attempts <= maxAttempts)

====
